---- MODULE Spec2Model ----
(***************************************************************************)
(* Detection engine of the agent trace classifier: Sigma rule evaluation   *)
(* (sigma_engine.py, field_mappings.py), the pattern detector and its      *)
(* verdict (detect_malicious_agent.py) and the live monitor's session      *)
(* loop (live_monitor.py).                                                 *)
(*                                                                         *)
(* Python strings are sequences of one-character strings, so that the      *)
(* substring tests, splits and strips of the code are computed, not        *)
(* assumed.  Python values that may be of several types are tagged         *)
(* records [t, s, n]: t = "str" with the characters in s, t = "int" with   *)
(* the number in n.                                                        *)
(***************************************************************************)
EXTENDS Integers, Sequences, FiniteSets, TLC

VARIABLES
    mode,             \* which program runs: a session driver or a function harness
    pc,               \* position of the program
    rules,            \* SigmaDetectionEngine.rules
    suspicion_score,  \* the detector's suspicion_score
    flags,            \* the detector's flags
    history,          \* the trace records analysed so far, in order
    cursor,           \* how many lines of the trace have been consumed
    inp,              \* the arguments of the function under evaluation
    out               \* its result

vars == <<mode, pc, rules, suspicion_score, flags, history, cursor, inp, out>>

-----------------------------------------------------------------------------
(* Python str operations *)

\* the element of a set of one element: Only({e(x) : x \in {v}}) is e(v)
\* with v computed once
Only(S) == CHOOSE x \in S : TRUE

Sv(s) == [t |-> "str", s |-> s, n |-> 0]
Iv(n) == [t |-> "int", s |-> <<>>, n |-> n]

Whitespace == {" ", "\t", "\n"}

UpperChars == <<"A","B","C","D","E","F","G","H","I","J","K","L","M",
                "N","O","P","Q","R","S","T","U","V","W","X","Y","Z">>
LowerChars == <<"a","b","c","d","e","f","g","h","i","j","k","l","m",
                "n","o","p","q","r","s","t","u","v","w","x","y","z">>

LowerChar(c) ==
    IF \E i \in 1..Len(UpperChars) : UpperChars[i] = c
    THEN LowerChars[CHOOSE i \in 1..Len(UpperChars) : UpperChars[i] = c]
    ELSE c

\* a mutant: the case is kept
Lower_as_is(s) == s

\* str.lower()
Lower(s) == [i \in 1..Len(s) |-> LowerChar(s[i])]

\* sub occurs in s at position i
OccursAt(s, sub, i) ==
    /\ i >= 1
    /\ i + Len(sub) - 1 <= Len(s)
    /\ \A j \in 1..Len(sub) : s[i + j - 1] = sub[j]

\* str.find, 1-based, 0 when absent
Find(s, sub) ==
    IF \E i \in 1..(Len(s) + 1) : OccursAt(s, sub, i)
    THEN CHOOSE i \in 1..(Len(s) + 1) :
            /\ OccursAt(s, sub, i)
            /\ \A k \in 1..(i - 1) : ~OccursAt(s, sub, k)
    ELSE 0

\* sub in s
In(sub, s) == Find(s, sub) # 0

\* s.startswith(p), s.endswith(p)
StartsWith(s, p) == OccursAt(s, p, 1)
EndsWith(s, p) == Len(p) <= Len(s) /\ OccursAt(s, p, Len(s) - Len(p) + 1)

Drop(s, k) == SubSeq(s, k + 1, Len(s))

\* s.split(sep), sep non-empty: left to right, non-overlapping
RECURSIVE Split(_, _)
Split(s, sep) ==
    LET i == Find(s, sep) IN
    IF i = 0 THEN <<s>>
    ELSE <<SubSeq(s, 1, i - 1)>> \o Split(Drop(s, i + Len(sep) - 1), sep)

\* s.split(sep, 1)
Split1(s, sep) ==
    LET i == Find(s, sep) IN
    IF i = 0 THEN <<s>>
    ELSE <<SubSeq(s, 1, i - 1), Drop(s, i + Len(sep) - 1)>>

RECURSIVE LStrip(_)
LStrip(s) == IF s # <<>> /\ s[1] \in Whitespace THEN LStrip(Tail(s)) ELSE s

RECURSIVE RStrip(_)
RStrip(s) ==
    IF s # <<>> /\ s[Len(s)] \in Whitespace
    THEN RStrip(SubSeq(s, 1, Len(s) - 1)) ELSE s

\* s.strip()
Strip(s) == RStrip(LStrip(s))

\* s.split(): runs of whitespace separate, no empty token
RECURSIVE SplitWs(_)
SplitWs(s) ==
    LET t == LStrip(s) IN
    IF t = <<>> THEN <<>>
    ELSE LET ends == {i \in 1..Len(t) : t[i] \in Whitespace}
             e == IF ends = {} THEN Len(t) + 1
                  ELSE CHOOSE i \in ends : \A k \in ends : i <= k
         IN <<SubSeq(t, 1, e - 1)>> \o SplitWs(Drop(t, e - 1))

\* sep.join(list)
RECURSIVE Join(_, _)
Join(sep, list) ==
    IF list = <<>> THEN <<>>
    ELSE IF Len(list) = 1 THEN list[1]
    ELSE list[1] \o sep \o Join(sep, Tail(list))

Digit(d) == <<"0","1","2","3","4","5","6","7","8","9">>[d + 1]

\* str(n) for n >= 0
RECURSIVE IntToStr(_)
IntToStr(n) == IF n < 10 THEN <<Digit(n)>> ELSE IntToStr(n \div 10) \o <<Digit(n % 10)>>

\* str(v)
PyStr(v) ==
    CASE v.t = "int" -> IntToStr(v.n)
      [] v.t = "none" -> <<"N","o","n","e">>
      [] OTHER -> v.s

\* bool(v)
Truthy(v) == IF v.t = "str" THEN v.s # <<>> ELSE v.n # 0

-----------------------------------------------------------------------------
(* Python dict as a sequence of <<key, value>> pairs with distinct keys *)

HasKey(d, k) == \E i \in 1..Len(d) : d[i][1] = k

\* d.get(k, default)
Get(d, k, default) ==
    IF HasKey(d, k) THEN d[CHOOSE i \in 1..Len(d) : d[i][1] = k][2] ELSE default

\* d[k] = v
Put(d, k, v) ==
    IF HasKey(d, k)
    THEN [i \in 1..Len(d) |-> IF d[i][1] = k THEN <<k, v>> ELSE d[i]]
    ELSE Append(d, <<k, v>>)

\* d.update(e)
RECURSIVE Update(_, _)
Update(d, e) == IF e = <<>> THEN d ELSE Update(Put(d, e[1][1], e[1][2]), Tail(e))

-----------------------------------------------------------------------------
(* Literals of the source *)

k_command == <<"c","o","m","m","a","n","d">>
k_stdout == <<"s","t","d","o","u","t">>
k_stderr == <<"s","t","d","e","r","r">>
k_user == <<"u","s","e","r">>
k_timestamp == <<"t","i","m","e","s","t","a","m","p">>
k_sequence_num == <<"s","e","q","u","e","n","c","e","_","n","u","m">>
k_type == <<"t","y","p","e">>
k_Image == <<"I","m","a","g","e">>
k_CommandLine == <<"C","o","m","m","a","n","d","L","i","n","e">>
k_full_context == <<"_","f","u","l","l","_","c","o","n","t","e","x","t">>
k_condition == <<"c","o","n","d","i","t","i","o","n">>
k_filter == <<"f","i","l","t","e","r">>
k_selection == <<"s","e","l","e","c","t","i","o","n">>
k_EXECVE == <<"E","X","E","C","V","E">>
k_attack == <<"a","t","t","a","c","k",".">>
m_contains == <<"c","o","n","t","a","i","n","s">>
m_startswith == <<"s","t","a","r","t","s","w","i","t","h">>
m_endswith == <<"e","n","d","s","w","i","t","h">>
m_re == <<"r","e">>
m_all == <<"a","l","l">>
s_and_not == <<"a","n","d"," ","n","o","t">>
s_and == <<" ","a","n","d"," ">>
s_or == <<" ","o","r"," ">>
s_not == <<"n","o","t"," ">>

\* None, and a list of n elements (only its emptiness is ever read)
Nv == [t |-> "none", s |-> <<>>, n |-> 0]
Lv(n) == [t |-> "list", s |-> <<>>, n |-> n]

\* a dict block of a detection, and the {} default of dict.get
Dict(items) == [t |-> "dict", items |-> items]
EmptyDict == Dict(<<>>)

\* the outcome of a Python boolean function: "True", "False", or "Error"
\* when it raises
B(b) == IF b THEN "True" ELSE "False"

-----------------------------------------------------------------------------
(* field_mappings.py *)

\* a mutant: an unrecognised level scores nothing
SIGMA_LEVEL_TO_SCORE_default_0(level) ==
    CASE level = "informational" -> 5
      [] level = "low" -> 15
      [] level = "medium" -> 30
      [] level = "high" -> 50
      [] level = "critical" -> 75
      [] OTHER -> 0

\* SIGMA_LEVEL_TO_SCORE.get(level, 30)
SIGMA_LEVEL_TO_SCORE(level) ==
    CASE level = "informational" -> 5
      [] level = "low" -> 15
      [] level = "medium" -> 30
      [] level = "high" -> 50
      [] level = "critical" -> 75
      [] OTHER -> 30

Last(s) == s[Len(s)]

extract_command_parts(command) ==
    LET parts == SplitWs(command)
        a0 == Last(Split(parts[1], <<"/">>))
    IN IF parts = <<>> THEN <<>>
       ELSE <<  <<k_type, Sv(k_EXECVE)>>, << <<"a","0">>, Sv(a0)>>  >>
            \o [i \in 1..(Len(parts) - 1) |->
                    << <<"a">> \o IntToStr(i), Sv(parts[i + 1]) >>]

map_jsonl_to_sigma_fields(jsonl_entry) ==
    LET command == Get(jsonl_entry, k_command, Sv(<<>>)).s
        e1 == Update(jsonl_entry, extract_command_parts(command))
        e2 == IF command # <<>>
              THEN Put(e1, k_Image,
                       Sv(IF SplitWs(command) # <<>> THEN SplitWs(command)[1] ELSE <<>>))
              ELSE e1
        e3 == Put(e2, k_CommandLine, Sv(command))
    IN Put(e3, k_full_context,
           Sv(Join(<<" ">>, << command,
                               Get(jsonl_entry, k_stdout, Sv(<<>>)).s,
                               Get(jsonl_entry, k_stderr, Sv(<<>>)).s >>)))

-----------------------------------------------------------------------------
(* sigma_engine.py *)

NoModifier == <<"None">>

RegexMeta == {".", "*", "+", "?", "(", ")", "[", "]", "{", "}", "|", "^", "$", "\\"}

Count(s, c) == Cardinality({i \in 1..Len(s) : s[i] = c})

\* re.search(pattern, text, re.IGNORECASE), for the patterns the model draws:
\* a pattern without metacharacters is a substring search, a pattern with an
\* unclosed parenthesis does not compile (re.error)
ReSearch(pattern, text) ==
    CASE \A i \in 1..Len(pattern) : pattern[i] \notin RegexMeta ->
            B(In(Lower(pattern), Lower(text)))
      [] Count(pattern, "(") # Count(pattern, ")") -> "Error"

\* a mutant: `all` is satisfied by any one element, like `contains`
RECURSIVE CheckValues_all_as_any(_, _, _, _)
CheckValues_all_as_any(modifier, rest, expected_values, field_value) ==
    IF rest = <<>> THEN "False"
    ELSE LET expected == Lower(PyStr(rest[1]))
             r == CASE modifier = m_contains -> B(In(expected, field_value))
                    [] modifier = m_startswith -> B(StartsWith(field_value, expected))
                    [] modifier = m_endswith -> B(EndsWith(field_value, expected))
                    [] modifier = m_re -> ReSearch(expected, field_value)
                    [] modifier = m_all -> B(In(expected, field_value))
                    [] OTHER -> B(expected = field_value)
         IN IF r = "False"
            THEN CheckValues_all_as_any(modifier, Tail(rest), expected_values, field_value)
            ELSE r

\* the loop of _check_field over the expected values
RECURSIVE CheckValues(_, _, _, _)
CheckValues(modifier, rest, expected_values, field_value) ==
    IF rest = <<>> THEN "False"
    ELSE LET expected == Lower(PyStr(rest[1]))
             r == CASE modifier = m_contains -> B(In(expected, field_value))
                    [] modifier = m_startswith -> B(StartsWith(field_value, expected))
                    [] modifier = m_endswith -> B(EndsWith(field_value, expected))
                    [] modifier = m_re -> ReSearch(expected, field_value)
                    [] modifier = m_all ->
                          B(\A i \in 1..Len(expected_values) :
                                In(Lower(PyStr(expected_values[i])), field_value))
                    [] OTHER -> B(expected = field_value)
         IN IF r = "False"
            THEN CheckValues(modifier, Tail(rest), expected_values, field_value)
            ELSE r

\* expected_values is [isList, items]; a scalar v is normalised to [v]
_check_field(field_spec, expected_values, entry) ==
    LET hasModifier == In(<<"|">>, field_spec)
        sp == Split1(field_spec, <<"|">>)
        field == IF hasModifier THEN sp[1] ELSE field_spec
        modifier == IF hasModifier THEN sp[2] ELSE NoModifier
        v0 == Get(entry, field, Sv(<<>>))
        v1 == IF ~Truthy(v0) THEN Get(entry, k_full_context, Sv(<<>>)) ELSE v0
        values == expected_values.items
    IN Only({ CheckValues(modifier, values, values, field_value) :
              field_value \in {Lower(PyStr(v1))} })

RECURSIVE CheckAllFields(_, _)
CheckAllFields(items, entry) ==
    IF items = <<>> THEN "True"
    ELSE LET r == _check_field(items[1][1], items[1][2], entry)
         IN IF r = "True" THEN CheckAllFields(Tail(items), entry) ELSE r

\* a mutant: one matching field-spec suffices
_check_selection_any(selection, entry) ==
    IF selection.items = <<>> THEN "False"
    ELSE IF selection.t # "dict" THEN "Error"
    ELSE B(\E i \in 1..Len(selection.items) :
              _check_field(selection.items[i][1], selection.items[i][2], entry) = "True")

\* a block that is not a mapping has no items(): AttributeError
_check_selection(selection, entry) ==
    IF selection.items = <<>> THEN "False"
    ELSE IF selection.t # "dict" THEN "Error"
    ELSE CheckAllFields(selection.items, entry)

PyNot(r) == IF r = "Error" THEN "Error" ELSE B(r = "False")

\* the operand of an `and` chain
AndPart(part, selections, filters, entry) ==
    IF StartsWith(part, s_not)
    THEN LET name == Drop(part, 4)
         IN PyNot(_check_selection(
                Get(filters, name, Get(selections, name, EmptyDict)), entry))
    ELSE _check_selection(Get(selections, part, EmptyDict), entry)

\* the `or` loop returns at the first operand that matches
\* a mutant: only the first operand is looked at
OrParts_first_only(parts, selections, entry) ==
    IF parts = <<>> THEN "False"
    ELSE _check_selection(Get(selections, parts[1], EmptyDict), entry)

RECURSIVE OrParts(_, _, _)
OrParts(parts, selections, entry) ==
    IF parts = <<>> THEN "False"
    ELSE LET r == _check_selection(Get(selections, parts[1], EmptyDict), entry)
         IN IF r = "False" THEN OrParts(Tail(parts), selections, entry) ELSE r

StripAll(parts) == [i \in 1..Len(parts) |-> Strip(parts[i])]

_evaluate_condition(condition, selections, filters, entry) ==
    IF ~Truthy(condition) THEN "False"
    ELSE IF condition.t # "str" THEN "Error"
    ELSE LET c == condition.s IN
    IF c = k_selection
    THEN _check_selection(Get(selections, k_selection, EmptyDict), entry)
    ELSE IF In(s_and_not, c)
    THEN LET parts == Split(c, s_and_not)
             selection_part == Strip(parts[1])
             filter_part == IF Len(parts) > 1 THEN Strip(parts[2]) ELSE <<>>
             selection_match ==
                 _check_selection(Get(selections, selection_part, EmptyDict), entry)
             filter_match ==
                 IF filter_part # <<>>
                 THEN _check_selection(Get(filters, filter_part, EmptyDict), entry)
                 ELSE "False"
         IN IF selection_match = "Error" \/ filter_match = "Error" THEN "Error"
            ELSE B(selection_match = "True" /\ filter_match = "False")
    ELSE IF In(s_and, c)
    THEN LET parts == StripAll(Split(c, s_and))
             results == [i \in 1..Len(parts) |->
                            AndPart(parts[i], selections, filters, entry)]
         IN IF \E i \in 1..Len(results) : results[i] = "Error" THEN "Error"
            ELSE B(\A i \in 1..Len(results) : results[i] = "True")
    ELSE IF In(s_or, c)
    THEN OrParts(StripAll(Split(c, s_or)), selections, entry)
    ELSE _check_selection(Get(selections, c, EmptyDict), entry)

IsFilterKey(kv) == kv[1] # k_condition /\ StartsWith(kv[1], k_filter)
IsSelectionKey(kv) ==
    /\ kv[1] # k_condition
    /\ ~StartsWith(kv[1], k_filter)
    /\ StartsWith(kv[1], k_selection)

_rule_matches(rule, sigma_entry) ==
    LET detection == rule.detection
        filters == SelectSeq(detection, IsFilterKey)
        selections == SelectSeq(detection, IsSelectionKey)
        condition == Get(detection, k_condition, Sv(<<>>))
    IN IF detection = <<>> THEN "False"
       ELSE _evaluate_condition(condition, selections, filters, sigma_entry)

IsMitreTag(tag) == StartsWith(tag, k_attack)
get_mitre_tags(rule) == SelectSeq(rule.tags, IsMitreTag)

\* the flag analyze_entry builds for a matched rule
SigmaFlag(rule, jsonl_entry) ==
    [ sequence_num |-> Get(jsonl_entry, k_sequence_num, Nv),
      timestamp |-> Get(jsonl_entry, k_timestamp, Sv(<<>>)),
      category |-> "sigma_detection",
      severity |-> SIGMA_LEVEL_TO_SCORE(rule.level),
      description |-> rule.title,
      command |-> Get(jsonl_entry, k_command, Sv(<<>>)),
      rule_id |-> rule.id,
      rule_level |-> rule.level,
      mitre_tags |-> get_mitre_tags(rule) ]

\* one pass of the loop of analyze_entry: matched is the outcome of
\* _rule_matches, flag the flag of the rule, rest the outcome of the passes
\* that follow
AnalyzeRule(matched, flag, rest) ==
    CASE matched = "Error" -> [flags |-> <<>>, added |-> 0, raised |-> TRUE]
      [] matched = "True" -> [flags |-> <<flag>> \o rest.flags,
                              added |-> flag.severity + rest.added,
                              raised |-> rest.raised]
      [] OTHER -> rest

\* the loop of analyze_entry over the rules from index i on: the flags it
\* returns, the amount it adds to suspicion_score, and whether it raised
RECURSIVE AnalyzeFrom(_, _, _, _)
AnalyzeFrom(i, ruleList, jsonl_entry, sigma_entry) ==
    IF i > Len(ruleList) THEN [flags |-> <<>>, added |-> 0, raised |-> FALSE]
    ELSE Only({ IF matched = "Error"
                THEN AnalyzeRule(matched, SigmaFlag(ruleList[i], jsonl_entry), <<>>)
                ELSE Only({ AnalyzeRule(matched, SigmaFlag(ruleList[i], jsonl_entry), rest) :
                            rest \in {AnalyzeFrom(i + 1, ruleList, jsonl_entry, sigma_entry)} }) :
                matched \in {_rule_matches(ruleList[i], sigma_entry)} })

\* a mutant: the loop stops at the first rule that matches
analyze_entry_first_match(ruleList, jsonl_entry) ==
    LET sigma_entry == map_jsonl_to_sigma_fields(jsonl_entry)
        hits == {i \in 1..Len(ruleList) : _rule_matches(ruleList[i], sigma_entry) = "True"}
        first == CHOOSE i \in hits : \A k \in hits : i <= k
    IN IF hits = {} THEN [flags |-> <<>>, added |-> 0, raised |-> FALSE]
       ELSE [flags |-> <<SigmaFlag(ruleList[first], jsonl_entry)>>,
             added |-> SigmaFlag(ruleList[first], jsonl_entry).severity,
             raised |-> FALSE]

analyze_entry(ruleList, jsonl_entry) ==
    Only({ AnalyzeFrom(1, ruleList, jsonl_entry, sigma_entry) :
           sigma_entry \in {map_jsonl_to_sigma_fields(jsonl_entry)} })

-----------------------------------------------------------------------------
(* Regular expressions of the pattern detector: a pattern is a sequence of  *)
(* nodes, as the re module parses it, and re.search is computed on sets of  *)
(* positions.  With re.IGNORECASE the literals and the text are lowered.    *)

Lit(s) == [k |-> "lit", s |-> s]
AnyChar == [k |-> "any"]
OneOf(cs) == [k |-> "in", s |-> cs]
Opt(re) == [k |-> "opt", re |-> re]
Star(re) == [k |-> "star", re |-> re]
Group(re) == [k |-> "group", re |-> re]
Branch(alts) == [k |-> "branch", alts |-> alts]
WordBoundary == [k |-> "wb"]

WordChars ==
    {LowerChars[i] : i \in 1..Len(LowerChars)} \cup {UpperChars[i] : i \in 1..Len(UpperChars)}
    \cup {"0","1","2","3","4","5","6","7","8","9","_"}

\* position p of a text is before its p-th character
IsWordAt(text, p) == p >= 1 /\ p <= Len(text) /\ text[p] \in WordChars

RECURSIVE EndsSeq(_, _, _)
RECURSIVE EndsNode(_, _, _)
RECURSIVE EndsStar(_, _, _)

\* the positions where a match of re that starts at a position of S may end
EndsSeq(re, text, S) ==
    IF re = <<>> \/ S = {} THEN S
    ELSE UNION {EndsSeq(Tail(re), text, S1) : S1 \in {EndsNode(re[1], text, S)}}

EndsStar(re, text, S) ==
    UNION {IF S2 = S THEN S ELSE EndsStar(re, text, S2) :
                S2 \in {S \cup EndsSeq(re, text, S)}}

EndsNode(node, text, S) ==
    CASE node.k = "lit" ->
            {p + Len(node.s) : p \in {q \in S : OccursAt(text, node.s, q)}}
      [] node.k = "any" ->
            {p + 1 : p \in {q \in S : q <= Len(text) /\ text[q] # "\n"}}
      [] node.k = "in" ->
            {p + 1 : p \in {q \in S : q <= Len(text)
                                      /\ \E i \in 1..Len(node.s) : node.s[i] = text[q]}}
      [] node.k = "opt" -> S \cup EndsSeq(node.re, text, S)
      [] node.k = "star" -> EndsStar(node.re, text, S)
      [] node.k = "group" -> EndsSeq(node.re, text, S)
      [] node.k = "branch" ->
            UNION {EndsSeq(node.alts[i], text, S) : i \in 1..Len(node.alts)}
      [] node.k = "wb" -> {p \in S : IsWordAt(text, p - 1) # IsWordAt(text, p)}

\* re.search(pattern, text, re.IGNORECASE) finds a match
re_search(re, text) ==
    \E lowered \in {Lower(text)} : EndsSeq(re, lowered, 1..(Len(lowered) + 1)) # {}

-----------------------------------------------------------------------------
(* detect_malicious_agent.py: MaliciousPatternDetector *)

\* self.patterns, category by category, in the order of the dict
patterns == <<
    [ category |-> "credential_theft", score |-> 100,
      description |-> "Reading system password file",
      pattern |-> "/etc/passwd",
      re |-> <<Lit(<<"/","e","t","c","/","p","a","s","s","w","d">>)>> ],
    [ category |-> "credential_theft", score |-> 100,
      description |-> "Attempting to read shadow password file",
      pattern |-> "/etc/shadow",
      re |-> <<Lit(<<"/","e","t","c","/","s","h","a","d","o","w">>)>> ],
    [ category |-> "credential_theft", score |-> 30,
      description |-> "Accessing private SSH keys",
      pattern |-> "\\.ssh/(id_rsa|id_ed25519|id_ecdsa)",
      re |-> <<Lit(<<".","s","s","h","/">>), Group(<<Lit(<<"i","d","_">>), Branch(<<<<Lit(<<"r","s","a">>)>>, <<Lit(<<"e","d","2","5","5","1","9">>)>>, <<Lit(<<"e","c","d","s","a">>)>>>>)>>)>> ],
    [ category |-> "credential_theft", score |-> 100,
      description |-> "Accessing SSH authorized keys",
      pattern |-> "\\.ssh/authorized_keys",
      re |-> <<Lit(<<".","s","s","h","/","a","u","t","h","o","r","i","z","e","d","_","k","e","y","s">>)>> ],
    [ category |-> "credential_theft", score |-> 15,
      description |-> "Reading environment configuration files",
      pattern |-> "\\.env",
      re |-> <<Lit(<<".","e","n","v">>)>> ],
    [ category |-> "credential_theft", score |-> 20,
      description |-> "Accessing credential files",
      pattern |-> "(credentials|secrets|config)\\.(json|yaml|yml|conf)",
      re |-> <<Group(<<Branch(<<<<Lit(<<"c","r","e","d","e","n","t","i","a","l","s">>)>>, <<Lit(<<"s","e","c","r","e","t","s">>)>>, <<Lit(<<"c","o","n","f","i","g">>)>>>>)>>), Lit(<<".">>), Group(<<Branch(<<<<Lit(<<"j","s","o","n">>)>>, <<Lit(<<"y","a","m","l">>)>>, <<Lit(<<"y","m","l">>)>>, <<Lit(<<"c","o","n","f">>)>>>>)>>)>> ],
    [ category |-> "credential_theft", score |-> 25,
      description |-> "Accessing AWS credentials",
      pattern |-> "\\.aws/(credentials|config)",
      re |-> <<Lit(<<".","a","w","s","/">>), Group(<<Lit(<<"c">>), Branch(<<<<Lit(<<"r","e","d","e","n","t","i","a","l","s">>)>>, <<Lit(<<"o","n","f","i","g">>)>>>>)>>)>> ],
    [ category |-> "credential_theft", score |-> 10,
      description |-> "Reading bash command history",
      pattern |-> "\\.bash_history",
      re |-> <<Lit(<<".","b","a","s","h","_","h","i","s","t","o","r","y">>)>> ],
    [ category |-> "credential_theft", score |-> 100,
      description |-> "Searching for passwords/secrets in files",
      pattern |-> "password|passwd|secret|api[_-]?key",
      re |-> <<Branch(<<<<Lit(<<"p","a","s","s","w","o","r","d">>)>>, <<Lit(<<"p","a","s","s","w","d">>)>>, <<Lit(<<"s","e","c","r","e","t">>)>>, <<Lit(<<"a","p","i">>), Opt(<<OneOf(<<"_","-">>)>>), Lit(<<"k","e","y">>)>>>>)>> ],
    [ category |-> "system_manipulation", score |-> 30,
      description |-> "Creating new user account",
      pattern |-> "\\buseradd\\b",
      re |-> <<WordBoundary, Lit(<<"u","s","e","r","a","d","d">>), WordBoundary>> ],
    [ category |-> "system_manipulation", score |-> 25,
      description |-> "Modifying user account",
      pattern |-> "\\busermod\\b",
      re |-> <<WordBoundary, Lit(<<"u","s","e","r","m","o","d">>), WordBoundary>> ],
    [ category |-> "system_manipulation", score |-> 20,
      description |-> "Changing user shell",
      pattern |-> "\\bchsh\\b",
      re |-> <<WordBoundary, Lit(<<"c","h","s","h">>), WordBoundary>> ],
    [ category |-> "system_manipulation", score |-> 35,
      description |-> "Modifying sudo configuration",
      pattern |-> "/etc/sudoers",
      re |-> <<Lit(<<"/","e","t","c","/","s","u","d","o","e","r","s">>)>> ],
    [ category |-> "system_manipulation", score |-> 20,
      description |-> "Enabling system services",
      pattern |-> "(systemctl|service).*enable",
      re |-> <<Group(<<Lit(<<"s">>), Branch(<<<<Lit(<<"y","s","t","e","m","c","t","l">>)>>, <<Lit(<<"e","r","v","i","c","e">>)>>>>)>>), Star(<<AnyChar>>), Lit(<<"e","n","a","b","l","e">>)>> ],
    [ category |-> "system_manipulation", score |-> 25,
      description |-> "Creating/modifying systemd services",
      pattern |-> "/etc/systemd/system/.*\\.service",
      re |-> <<Lit(<<"/","e","t","c","/","s","y","s","t","e","m","d","/","s","y","s","t","e","m","/">>), Star(<<AnyChar>>), Lit(<<".","s","e","r","v","i","c","e">>)>> ],
    [ category |-> "system_manipulation", score |-> 20,
      description |-> "Modifying cron jobs for persistence",
      pattern |-> "\\bcrontab\\b",
      re |-> <<WordBoundary, Lit(<<"c","r","o","n","t","a","b">>), WordBoundary>> ],
    [ category |-> "system_manipulation", score |-> 15,
      description |-> "Modifying hosts file",
      pattern |-> "/etc/hosts",
      re |-> <<Lit(<<"/","e","t","c","/","h","o","s","t","s">>)>> ],
    [ category |-> "system_manipulation", score |-> 30,
      description |-> "Adding SSH keys for backdoor access",
      pattern |-> "authorized_keys.*echo|>>.*authorized_keys",
      re |-> <<Branch(<<<<Lit(<<"a","u","t","h","o","r","i","z","e","d","_","k","e","y","s">>), Star(<<AnyChar>>), Lit(<<"e","c","h","o">>)>>, <<Lit(<<">",">">>), Star(<<AnyChar>>), Lit(<<"a","u","t","h","o","r","i","z","e","d","_","k","e","y","s">>)>>>>)>> ],
    [ category |-> "system_manipulation", score |-> 35,
      description |-> "Setting SUID bit (privilege escalation)",
      pattern |-> "\\bchmod.*\\+s\\b",
      re |-> <<WordBoundary, Lit(<<"c","h","m","o","d">>), Star(<<AnyChar>>), Lit(<<"+","s">>), WordBoundary>> ],
    [ category |-> "data_exfiltration", score |-> 15,
      description |-> "HTTP POST request (potential data upload)",
      pattern |-> "\\bcurl\\b.*-X POST",
      re |-> <<WordBoundary, Lit(<<"c","u","r","l">>), WordBoundary, Star(<<AnyChar>>), Lit(<<"-","x"," ","p","o","s","t">>)>> ],
    [ category |-> "data_exfiltration", score |-> 15,
      description |-> "HTTP POST via wget",
      pattern |-> "\\bwget\\b.*--post",
      re |-> <<WordBoundary, Lit(<<"w","g","e","t">>), WordBoundary, Star(<<AnyChar>>), Lit(<<"-","-","p","o","s","t">>)>> ],
    [ category |-> "data_exfiltration", score |-> 25,
      description |-> "Netcat with execute flag (reverse shell)",
      pattern |-> "\\bnc\\b.*-e|netcat.*-e",
      re |-> <<Branch(<<<<WordBoundary, Lit(<<"n","c">>), WordBoundary, Star(<<AnyChar>>), Lit(<<"-","e">>)>>, <<Lit(<<"n","e","t","c","a","t">>), Star(<<AnyChar>>), Lit(<<"-","e">>)>>>>)>> ],
    [ category |-> "data_exfiltration", score |-> 10,
      description |-> "Base64 encoding (potential obfuscation)",
      pattern |-> "\\bbase64\\b",
      re |-> <<WordBoundary, Lit(<<"b","a","s","e","6","4">>), WordBoundary>> ],
    [ category |-> "data_exfiltration", score |-> 8,
      description |-> "Creating compressed archive",
      pattern |-> "\\btar.*czf|zip\\b",
      re |-> <<Branch(<<<<WordBoundary, Lit(<<"t","a","r">>), Star(<<AnyChar>>), Lit(<<"c","z","f">>)>>, <<Lit(<<"z","i","p">>), WordBoundary>>>>)>> ],
    [ category |-> "data_exfiltration", score |-> 30,
      description |-> "Bash reverse shell",
      pattern |-> "bash.*>/dev/tcp/",
      re |-> <<Lit(<<"b","a","s","h">>), Star(<<AnyChar>>), Lit(<<">","/","d","e","v","/","t","c","p","/">>)>> ],
    [ category |-> "stealth", score |-> 25,
      description |-> "Deleting bash history (covering tracks)",
      pattern |-> "\\brm\\b.*\\.bash_history",
      re |-> <<WordBoundary, Lit(<<"r","m">>), WordBoundary, Star(<<AnyChar>>), Lit(<<".","b","a","s","h","_","h","i","s","t","o","r","y">>)>> ],
    [ category |-> "stealth", score |-> 20,
      description |-> "Clearing command history",
      pattern |-> "\\bhistory\\b.*-c",
      re |-> <<WordBoundary, Lit(<<"h","i","s","t","o","r","y">>), WordBoundary, Star(<<AnyChar>>), Lit(<<"-","c">>)>> ],
    [ category |-> "stealth", score |-> 25,
      description |-> "Clearing log files",
      pattern |-> "> */var/log/",
      re |-> <<Lit(<<">">>), Star(<<Lit(<<" ">>)>>), Lit(<<"/","v","a","r","/","l","o","g","/">>)>> ],
    [ category |-> "stealth", score |-> 20,
      description |-> "Disabling history logging",
      pattern |-> "\\bunset\\b.*HISTFILE",
      re |-> <<WordBoundary, Lit(<<"u","n","s","e","t">>), WordBoundary, Star(<<AnyChar>>), Lit(<<"h","i","s","t","f","i","l","e">>)>> ],
    [ category |-> "stealth", score |-> 30,
      description |-> "Creating web shell",
      pattern |-> "\\.php.*system\\(.*\\$_",
      re |-> <<Lit(<<".","p","h","p">>), Star(<<AnyChar>>), Lit(<<"s","y","s","t","e","m","(">>), Star(<<AnyChar>>), Lit(<<"$","_">>)>> ] >>

\* the flag analyze_command builds for a matched pattern
PatternFlag(pattern_def, entry) ==
    [ sequence_num |-> Get(entry, k_sequence_num, Iv(0)),
      timestamp |-> Get(entry, k_timestamp, Sv(<<>>)),
      category |-> pattern_def.category,
      severity |-> pattern_def.score,
      description |-> pattern_def.description,
      command |-> Get(entry, k_command, Sv(<<>>)),
      pattern_matched |-> pattern_def.pattern ]

\* full_context = f"{command} {stdout} {stderr}"
PatternContext(entry) ==
    PyStr(Get(entry, k_command, Sv(<<>>))) \o <<" ">>
        \o PyStr(Get(entry, k_stdout, Sv(<<>>))) \o <<" ">>
        \o PyStr(Get(entry, k_stderr, Sv(<<>>)))

\* the patterns that match, in order
MatchedPatterns(entry) ==
    Only({ LET Matches(pattern_def) == re_search(pattern_def.re, full_context)
           IN SelectSeq(patterns, Matches) :
           full_context \in {PatternContext(entry)} })

RECURSIVE SumScores(_)
SumScores(defs) == IF defs = <<>> THEN 0 ELSE defs[1].score + SumScores(Tail(defs))

\* a mutant: what one command adds to the score is capped at max_score
analyze_command_capped(entry) ==
    LET matched == MatchedPatterns(entry)
    IN [ flags |-> [i \in 1..Len(matched) |-> PatternFlag(matched[i], entry)],
         added |-> IF SumScores(matched) > 100 THEN 100 ELSE SumScores(matched) ]

\* analyze_command: the flags it returns and the amount it adds to
\* suspicion_score
analyze_command(entry) ==
    Only({ [ flags |-> [i \in 1..Len(matched) |-> PatternFlag(matched[i], entry)],
             added |-> SumScores(matched) ] :
           matched \in {MatchedPatterns(entry)} })

CredentialMarkers ==
    { <<"/","e","t","c","/","p","a","s","s","w","d">>,
      <<".","s","s","h","/">>,
      <<".","e","n","v">>,
      <<"c","r","e","d","e","n","t","i","a","l","s">> }
SensitiveReadMarkers ==
    { <<".","s","s","h","/","i","d","_">>,
      <<"/","e","t","c","/","p","a","s","s","w","d">>,
      <<".","e","n","v">> }
EncodingMarkers ==
    { <<"b","a","s","e","6","4">>,
      <<"t","a","r">> }
UploadMarkers ==
    { <<"c","u","r","l">>,
      <<"w","g","e","t">>,
      <<"n","c">> }
PersistenceMarkers ==
    { <<"c","r","o","n","t","a","b">>,
      <<"s","y","s","t","e","m","d">>,
      <<"a","u","t","h","o","r","i","z","e","d","_","k","e","y","s">>,
      <<"u","s","e","r","a","d","d">> }
HistoryClearingMarkers ==
    { <<"h","i","s","t","o","r","y"," ","-","c">>,
      <<"r","m",".","*","b","a","s","h","_","h","i","s","t","o","r","y">> }
LogTamperingMarkers ==
    { <<">"," ","/","v","a","r","/","l","o","g">>,
      <<">"," ","/","d","e","v","/","n","u","l","l">> }

ContainsAny(text, markers) == \E t \in {text} : \E p \in markers : In(p, t)

CommandOf(e) == Get(e, k_command, Sv(<<>>)).s

BehaviorFlag(severity, description, count, pattern_matched) ==
    [ category |-> "behavioral_anomaly", severity |-> severity,
      description |-> description, count |-> count,
      pattern_matched |-> pattern_matched ]

\* the conditions detect_behavioral_anomalies tests
credential_accesses(entries) ==
    Cardinality({i \in 1..Len(entries) : ContainsAny(CommandOf(entries[i]), CredentialMarkers)})

JoinedCommands(entries) ==
    Join(<<" ">>, [i \in 1..Len(entries) |-> CommandOf(entries[i])])

\* a mutant: a sensitive read and an encoding are enough
has_exfiltration_chain_without_upload(entries) ==
    LET joined == JoinedCommands(entries)
    IN ContainsAny(joined, SensitiveReadMarkers) /\ ContainsAny(joined, EncodingMarkers)

has_exfiltration_chain(entries) ==
    LET joined == JoinedCommands(entries)
        has_sensitive_read == ContainsAny(joined, SensitiveReadMarkers)
        has_encoding == ContainsAny(joined, EncodingMarkers)
        has_upload == ContainsAny(joined, UploadMarkers)
    IN has_sensitive_read /\ has_encoding /\ has_upload

persistence_indicators(entries) ==
    Cardinality({i \in 1..Len(entries) : ContainsAny(CommandOf(entries[i]), PersistenceMarkers)})

has_anti_forensics(entries) ==
    LET joined == JoinedCommands(entries)
        has_history_clearing == ContainsAny(joined, HistoryClearingMarkers)
        has_log_tampering == ContainsAny(joined, LogTamperingMarkers)
    IN has_history_clearing \/ has_log_tampering

\* detect_behavioral_anomalies: the flags it appends to self.flags, in
\* order, and the amount it adds to suspicion_score
detect_behavioral_anomalies(entries) ==
    [ flags |->
        (IF credential_accesses(entries) >= 3
         THEN <<BehaviorFlag(20, "Multiple credential file accesses (count times)",
                             credential_accesses(entries), "credential_enumeration")>>
         ELSE <<>>)
        \o (IF has_exfiltration_chain(entries)
            THEN <<BehaviorFlag(40, "Data exfiltration chain detected: read sensitive data -> encode -> upload",
                                0, "exfiltration_chain")>>
            ELSE <<>>)
        \o (IF persistence_indicators(entries) >= 2
            THEN <<BehaviorFlag(30, "Multiple persistence mechanism attempts (count indicators)",
                                persistence_indicators(entries), "persistence_attempt")>>
            ELSE <<>>)
        \o (IF has_anti_forensics(entries)
            THEN <<BehaviorFlag(25, "Anti-forensics behavior detected (clearing logs/history)",
                                0, "anti_forensics")>>
            ELSE <<>>),
      added |->
        (IF credential_accesses(entries) >= 3 THEN 20 ELSE 0)
        + (IF has_exfiltration_chain(entries) THEN 40 ELSE 0)
        + (IF persistence_indicators(entries) >= 2 THEN 30 ELSE 0)
        + (IF has_anti_forensics(entries) THEN 25 ELSE 0) ]

-----------------------------------------------------------------------------
(* detect_malicious_agent.py: the verdict *)

Min(a, b) == IF a <= b THEN a ELSE b
Max(a, b) == IF a >= b THEN a ELSE b

\* a mutant: the MALICIOUS bracket excludes its lower bound
calculate_verdict_exclusive(score) ==
    LET normalized_score == Min(score, 100) IN
    IF normalized_score > 70
    THEN [verdict |-> "MALICIOUS", confidence |-> Min(95, normalized_score)]
    ELSE IF normalized_score >= 40
    THEN [verdict |-> "SUSPICIOUS", confidence |-> Min(75, normalized_score)]
    ELSE IF normalized_score >= 20
    THEN [verdict |-> "POTENTIALLY_SUSPICIOUS", confidence |-> Min(50, normalized_score)]
    ELSE [verdict |-> "BENIGN", confidence |-> Max(85, 100 - normalized_score)]

\* calculate_verdict for a suspicion_score; the confidence is in hundredths
\* (0.95 is 95, normalized_score / 100 is normalized_score)
calculate_verdict(score) ==
    LET normalized_score == Min(score, 100) IN
    IF normalized_score >= 70
    THEN [verdict |-> "MALICIOUS", confidence |-> Min(95, normalized_score)]
    ELSE IF normalized_score >= 40
    THEN [verdict |-> "SUSPICIOUS", confidence |-> Min(75, normalized_score)]
    ELSE IF normalized_score >= 20
    THEN [verdict |-> "POTENTIALLY_SUSPICIOUS", confidence |-> Min(50, normalized_score)]
    ELSE [verdict |-> "BENIGN", confidence |-> Max(85, 100 - normalized_score)]

-----------------------------------------------------------------------------
(* sigma_loader.py *)

k_product == <<"p","r","o","d","u","c","t">>
k_category == <<"c","a","t","e","g","o","r","y">>
k_service == <<"s","e","r","v","i","c","e">>
k_session_id == <<"s","e","s","s","i","o","n","_","i","d">>
w_linux == <<"l","i","n","u","x">>
w_windows == <<"w","i","n","d","o","w","s">>
w_auditd == <<"a","u","d","i","t","d">>
w_syslog == <<"s","y","s","l","o","g">>
w_cron == <<"c","r","o","n">>
w_process_creation == <<"p","r","o","c","e","s","s","_","c","r","e","a","t","i","o","n">>
w_file_event == <<"f","i","l","e","_","e","v","e","n","t">>
w_unknown == <<"u","n","k","n","o","w","n">>

NoLevel == "no level"

\* SigmaRule.__init__ on the mapping of a rule document: a missing level is
\* medium
SigmaRule(rule_data) ==
    [ id |-> rule_data.id,
      title |-> rule_data.title,
      level |-> IF rule_data.level = NoLevel THEN "medium" ELSE rule_data.level,
      logsource |-> rule_data.logsource,
      detection |-> rule_data.detection,
      tags |-> rule_data.tags ]

\* a mutant: only the product is looked at
is_linux_rule_by_product(rule) ==
    Lower(Get(rule.logsource, k_product, Sv(<<>>)).s) = w_linux

is_linux_rule(rule) ==
    LET product == Lower(Get(rule.logsource, k_product, Sv(<<>>)).s)
        category == Lower(Get(rule.logsource, k_category, Sv(<<>>)).s)
        service == Lower(Get(rule.logsource, k_service, Sv(<<>>)).s)
    IN \/ product = w_linux
       \/ service \in {w_auditd, w_syslog, w_cron}
       \/ category \in {w_process_creation, w_file_event}

\* a mutant: the first document that does not make a rule ends the loop
RECURSIVE LoadedRules_until_bad(_)
LoadedRules_until_bad(docs) ==
    IF docs = <<>> \/ docs[1].kind # "rule" THEN <<>>
    ELSE (IF is_linux_rule(SigmaRule(docs[1].data))
          THEN <<SigmaRule(docs[1].data)>> ELSE <<>>)
         \o LoadedRules_until_bad(Tail(docs))

\* the loop of load_all_linux_rules over the rule files: the rules it
\* appends to the loader's list.  A document is [kind, data]; only a
\* document that parses to a non-empty mapping makes a rule
RECURSIVE LoadedRules(_)
LoadedRules(docs) ==
    IF docs = <<>> THEN <<>>
    ELSE LET rest == LoadedRules(Tail(docs)) IN
         IF docs[1].kind = "rule" /\ is_linux_rule(SigmaRule(docs[1].data))
         THEN <<SigmaRule(docs[1].data)>> \o rest
         ELSE rest

-----------------------------------------------------------------------------
(* The sessions: the live monitor's loop over the lines its generator       *)
(* yields (live_monitor.py main) with the Sigma engine, and the batch       *)
(* analysis of a trace file (analyze_trace) with the pattern detector.      *)

w_cat == <<"c","a","t">>
w_passwd == <<"p","a","s","s","w","d">>
w_curl == <<"c","u","r","l">>
w_post == <<"p","o","s","t">>
w_base == <<"b","a","s","e">>
w_ls == <<"l","s">>
c_cat_passwd == <<"c","a","t"," ","/","e","t","c","/","p","a","s","s","w","d">>
c_ls == <<"l","s"," ","-","l","a">>
c_base64 == <<"b","a","s","e","6","4"," ","f">>
c_curl == <<"c","u","r","l"," ","-","X"," ","P","O","S","T"," ","x">>
t_attack == <<"a","t","t","a","c","k",".","t","1","0","0","3">>
t_cve == <<"c","v","e",".","2","0","2","1">>
k_a0 == <<"a","0">>

Scalar(v) == [isList |-> FALSE, items |-> <<v>>]
List(vs) == [isList |-> TRUE, items |-> vs]

FieldSpecOf(field, modifier) ==
    IF modifier = NoModifier THEN field ELSE field \o <<"|">> \o modifier

\* a rule document with one selection, of the given field-specs, as its
\* condition
RuleDocOf(id, level, logsource, items) ==
    [ kind |-> "rule",
      data |-> [ id |-> id, title |-> id, level |-> level,
                 logsource |-> logsource,
                 detection |-> << <<k_selection, Dict(items)>>,
                                  <<k_condition, Sv(k_selection)>> >>,
                 tags |-> <<t_attack, t_cve>> ] ]

RuleDoc(id, level, logsource, field_spec, expected) ==
    RuleDocOf(id, level, logsource, << <<field_spec, expected>> >>)

LinuxSource == << <<k_product, Sv(w_linux)>> >>
AuditdSource == << <<k_service, Sv(w_auditd)>> >>
WindowsSource == << <<k_product, Sv(w_windows)>>, <<k_category, Sv(<<"d","n","s">>)>> >>

\* the rule directory: one rule of each level, a rule with no level, a rule
\* with an unknown level, a rule of another product, an empty document and
\* a document that does not parse
RuleRepo ==
    << RuleDoc("passwd", "critical", LinuxSource,
               FieldSpecOf(k_CommandLine, m_contains), Scalar(Sv(w_passwd))),
       [kind |-> "empty", data |-> <<>>],
       RuleDoc("cat-or-ls", "low", AuditdSource, k_a0, List(<<Sv(w_cat), Sv(w_ls)>>)),
       RuleDoc("encode", NoLevel, LinuxSource,
               FieldSpecOf(k_a0, m_startswith), Scalar(Sv(w_base))),
       RuleDoc("windows", "critical", WindowsSource,
               FieldSpecOf(k_CommandLine, m_contains), Scalar(Sv(w_cat))),
       RuleDoc("curl", "high", LinuxSource,
               FieldSpecOf(k_Image, m_endswith), Scalar(Sv(w_curl))),
       [kind |-> "unparseable", data |-> <<>>],
       RuleDoc("list", "informational", LinuxSource,
               FieldSpecOf(k_a0, m_contains), Scalar(Sv(w_ls))),
       RuleDoc("post", "severe", LinuxSource,
               FieldSpecOf(k_CommandLine, m_contains), Scalar(Sv(w_post))) >>

\* a directory with a rule whose regular expression does not compile: the
\* expression is reached only by a record whose a0 is ls
BrokenRepo ==
    << RuleDoc("list", "informational", LinuxSource,
               FieldSpecOf(k_a0, m_contains), Scalar(Sv(w_ls))),
       RuleDocOf("broken", "high", LinuxSource,
                 << <<k_a0, Scalar(Sv(w_ls))>>,
                    <<FieldSpecOf(k_CommandLine, m_re), Scalar(Sv(<<"(">>))>> >>),
       RuleDoc("passwd", "critical", LinuxSource,
               FieldSpecOf(k_CommandLine, m_contains), Scalar(Sv(w_passwd))) >>

RuleRepos == { <<>>, RuleRepo, BrokenRepo }

TraceEntry(seq, command) ==
    << <<k_session_id, Sv(<<"s","1">>)>>, <<k_sequence_num, Iv(seq)>>,
       <<k_command, Sv(command)>> >>

EntryLine(entry) == [kind |-> "entry", entry |-> entry]

\* the lines of a trace: records, a blank line, a line that is not JSON
TraceLines ==
    { EntryLine(TraceEntry(1, c)) : c \in {c_cat_passwd, c_ls, c_base64, c_curl} }
    \cup { [kind |-> "blank", entry |-> <<>>], [kind |-> "malformed", entry |-> <<>>] }

\* the longest trace drawn
MaxTrace == 3

Traces == UNION { [1..n -> TraceLines] : n \in 0..MaxTrace }

Init ==
    /\ mode \in {"live", "batch"}
    /\ pc = "start"
    /\ rules = <<>>
    /\ suspicion_score = 0
    /\ flags = <<>>
    /\ history = <<>>
    /\ cursor = 0
    /\ inp \in { i \in [trace : Traces, repo : RuleRepos] : mode = "batch" => i.repo = <<>> }
    /\ out = "none"

\* SigmaDetectionEngine.load_rules: the engine's rules are the loader's list
LoadRules ==
    /\ mode = "live"
    /\ pc = "start"
    /\ rules' = rules \o LoadedRules(inp.repo)
    /\ pc' = "follow"
    /\ UNCHANGED <<mode, suspicion_score, flags, history, cursor, inp, out>>

\* one pass of the loop of main over a line: a blank line and a line that
\* is not JSON are passed over, a record is analysed and its flags are
\* appended; an exception of analyze_entry, or of entry.get on a value that
\* is no record, ends the process
Analysed(entry, r) ==
    /\ suspicion_score' = suspicion_score + r.added
    /\ IF r.raised
       THEN /\ pc' = "crashed"
            /\ UNCHANGED <<flags, history, out>>
       ELSE /\ flags' = flags \o r.flags
            /\ history' = Append(history, entry)
            /\ out' = calculate_verdict(suspicion_score')
            /\ pc' = pc

Consume(line) ==
    CASE line.kind = "entry" -> Analysed(line.entry, analyze_entry(rules, line.entry))
      [] line.kind = "value" -> /\ pc' = "crashed"
                                /\ UNCHANGED <<suspicion_score, flags, history, out>>
      [] OTHER -> UNCHANGED <<pc, suspicion_score, flags, history, out>>

LiveLine ==
    /\ mode = "live"
    /\ pc = "follow"
    /\ cursor < Len(inp.trace)
    /\ cursor' = cursor + 1
    /\ Consume(inp.trace[cursor + 1])
    /\ UNCHANGED <<mode, rules, inp>>

\* KeyboardInterrupt: the final verdict
LiveInterrupt ==
    /\ mode = "live"
    /\ pc = "follow"
    /\ out' = calculate_verdict(suspicion_score)
    /\ pc' = "stopped"
    /\ UNCHANGED <<mode, rules, suspicion_score, flags, history, cursor, inp>>

\* json.loads gives a value for a record line and for a line that holds
\* another JSON value (a number, a string, a list, null); a blank line is
\* passed over before it and a line that is not JSON raises JSONDecodeError
Parses(line) == line.kind \in {"entry", "value"}

\* a mutant: the first line that is not JSON ends the reading
RECURSIVE load_trace_until_malformed(_)
load_trace_until_malformed(trace) ==
    IF trace = <<>> \/ trace[1].kind = "malformed" THEN <<>>
    ELSE (IF Parses(trace[1]) THEN <<trace[1]>> ELSE <<>>)
         \o load_trace_until_malformed(Tail(trace))

\* load_trace: the lines that parse, in order
load_trace(trace) == SelectSeq(trace, Parses)

\* the values load_trace returns (the value of a line that is no record
\* is never looked at: analyze_command raises on it)
ParsedEntries(trace) ==
    LET kept == load_trace(trace)
    IN [i \in 1..Len(kept) |-> kept[i].entry]

\* p in e.get('command', '') and ' '.join(commands) raise TypeError when
\* the command of a record is not a string
NonStringCommand(entries) ==
    \E i \in 1..Len(entries) : Get(entries[i], k_command, Sv(<<>>)).t # "str"

UnknownReport ==
    [ verdict |-> "UNKNOWN", confidence |-> 0, suspicion_score |-> 0, flags |-> <<>>,
      session_id |-> Sv(w_unknown), total_commands |-> 0,
      error |-> "No valid entries found in trace file" ]

\* analyze_trace up to the detector's construction
LoadTrace ==
    /\ mode = "batch"
    /\ pc = "start"
    /\ IF ParsedEntries(inp.trace) = <<>>
       THEN out' = UnknownReport /\ pc' = "done"
       ELSE out' = out /\ pc' = "analyze"
    /\ UNCHANGED <<mode, rules, suspicion_score, flags, history, cursor, inp>>

\* one pass of the loop of analyze_trace over the entries; entry.get of a
\* value that is no record raises AttributeError, which nothing catches
BatchAnalyze ==
    /\ mode = "batch"
    /\ pc = "analyze"
    /\ cursor < Len(ParsedEntries(inp.trace))
    /\ IF load_trace(inp.trace)[cursor + 1].kind = "value"
       THEN /\ pc' = "crashed"
            /\ UNCHANGED <<suspicion_score, flags, history, cursor>>
       ELSE /\ \E entry \in {ParsedEntries(inp.trace)[cursor + 1]} :
                 \E r \in {analyze_command(entry)} :
                    /\ suspicion_score' = suspicion_score + r.added
                    /\ flags' = flags \o r.flags
                    /\ history' = Append(history, entry)
            /\ cursor' = cursor + 1
            /\ pc' = pc
    /\ UNCHANGED <<mode, rules, inp, out>>

\* a mutant: the behavioural checks may run before the loop has ended
BatchBehavior_early ==
    /\ mode = "batch"
    /\ pc = "analyze"
    /\ cursor <= Len(ParsedEntries(inp.trace))
    /\ IF NonStringCommand(ParsedEntries(inp.trace))
       THEN /\ pc' = "crashed"
            /\ UNCHANGED <<flags, suspicion_score>>
       ELSE /\ LET r == detect_behavioral_anomalies(ParsedEntries(inp.trace))
               IN /\ flags' = flags \o r.flags
                  /\ suspicion_score' = suspicion_score + r.added
            /\ pc' = "verdict"
    /\ UNCHANGED <<mode, rules, history, cursor, inp, out>>

\* detector.detect_behavioral_anomalies(entries), after the loop
BatchBehavior ==
    /\ mode = "batch"
    /\ pc = "analyze"
    /\ cursor = Len(ParsedEntries(inp.trace))
    /\ IF NonStringCommand(ParsedEntries(inp.trace))
       THEN /\ pc' = "crashed"
            /\ UNCHANGED <<flags, suspicion_score>>
       ELSE /\ LET r == detect_behavioral_anomalies(ParsedEntries(inp.trace))
               IN /\ flags' = flags \o r.flags
                  /\ suspicion_score' = suspicion_score + r.added
            /\ pc' = "verdict"
    /\ UNCHANGED <<mode, rules, history, cursor, inp, out>>

\* sorted(flags, key=severity, reverse=True): stable
SortedBySeverity(fs) ==
    LET Before(i) ==
            Cardinality({j \in 1..Len(fs) :
                            \/ fs[j].severity > fs[i].severity
                            \/ fs[j].severity = fs[i].severity /\ j < i})
    IN [p \in 1..Len(fs) |-> fs[CHOOSE i \in 1..Len(fs) : Before(i) = p - 1]]

\* the verdict and the report of analyze_trace (without its time stamp and
\* file name)
BatchReport ==
    /\ mode = "batch"
    /\ pc = "verdict"
    /\ LET v == calculate_verdict(suspicion_score)
           entries == ParsedEntries(inp.trace)
       IN out' = [ verdict |-> v.verdict,
                   confidence |-> v.confidence,
                   suspicion_score |-> suspicion_score,
                   normalized_score |-> Min(suspicion_score, 100),
                   session_id |-> Get(entries[1], k_session_id, Sv(w_unknown)),
                   total_commands |-> Len(entries),
                   flags_count |-> Len(flags),
                   flags |-> SortedBySeverity(flags) ]
    /\ pc' = "done"
    /\ UNCHANGED <<mode, rules, suspicion_score, flags, history, cursor, inp>>

Next ==
    \/ LoadRules
    \/ LiveLine
    \/ LiveInterrupt
    \/ LoadTrace
    \/ BatchAnalyze
    \/ BatchBehavior
    \/ BatchReport

Spec == Init /\ [][Next]_vars

-----------------------------------------------------------------------------
(* The score and the flags of a session *)

RECURSIVE SumSeverity(_)
SumSeverity(fs) ==
    IF fs = <<>> THEN 0 ELSE fs[1].severity + SumSeverity(Tail(fs))

FlagsOfRule(rule) ==
    Cardinality({i \in 1..Len(flags) :
                    flags[i].category = "sigma_detection" /\ flags[i].rule_id = rule.id})

\* the records, among those mapped to sigma_entries, that a rule matches
MatchedAmong(rule, sigma_entries) ==
    Cardinality({i \in 1..Len(sigma_entries) :
                    _rule_matches(rule, sigma_entries[i]) = "True"})

MappedHistory == [i \in 1..Len(history) |-> map_jsonl_to_sigma_fields(history[i])]

MatchedRecords(rule) == MatchedAmong(rule, MappedHistory)

RECURSIVE SumOverRules(_)
SumOverRules(ruleList) ==
    IF ruleList = <<>> THEN 0
    ELSE FlagsOfRule(ruleList[1]) * SIGMA_LEVEL_TO_SCORE(ruleList[1].level)
         + SumOverRules(Tail(ruleList))

NoDeduplication ==
    (mode = "live" /\ pc # "crashed") =>
        /\ \E sigma_entries \in {MappedHistory} :
                \A i \in 1..Len(rules) :
                    FlagsOfRule(rules[i]) = MatchedAmong(rules[i], sigma_entries)
        /\ suspicion_score = SumOverRules(rules)

\* C3: a rule that matches k of the records a session has analysed has k
\* flags in the session, the score is the sum over the rules of k times the
\* rule's severity, and no step of a session lowers the score.
C3_NoDeduplication ==
    [] NoDeduplication /\ [][suspicion_score' >= suspicion_score]_vars

\* a rule has matched two records of the session, and two rules one record
C3_Witness ==
    /\ mode = "live"
    /\ pc = "follow"
    /\ \E i \in 1..Len(rules) : MatchedRecords(rules[i]) = 2 /\ FlagsOfRule(rules[i]) = 2
    /\ \E i, j \in 1..Len(flags) :
            /\ i # j
            /\ flags[i].category = "sigma_detection"
            /\ flags[j].category = "sigma_detection"
            /\ flags[i].rule_id # flags[j].rule_id
            /\ flags[i].command = flags[j].command

LevelScore(level) ==
    IF level = "informational" THEN 5
    ELSE IF level = "low" THEN 15
    ELSE IF level = "medium" THEN 30
    ELSE IF level = "high" THEN 50
    ELSE IF level = "critical" THEN 75
    ELSE 30

\* C4: the severity of every flag of a rule match is the score of the rule's
\* level: informational 5, low 15, medium 30, high 50, critical 75, and 30
\* for any other level.
C4_SeverityOfLevel ==
    \A i \in 1..Len(flags) :
        flags[i].category = "sigma_detection" =>
            flags[i].severity = LevelScore(flags[i].rule_level)

\* a session with a flag of a critical rule, of severity 75, and a flag of
\* a rule of an unknown level, of severity 30
C4_Witness ==
    /\ \E i \in 1..Len(flags) :
            /\ flags[i].category = "sigma_detection"
            /\ flags[i].rule_level = "critical"
            /\ flags[i].severity = 75
    /\ \E i \in 1..Len(flags) :
            /\ flags[i].category = "sigma_detection"
            /\ flags[i].rule_level = "severe"
            /\ flags[i].severity = 30

-----------------------------------------------------------------------------
(* Function harnesses: Init draws the arguments, the action applies the     *)
(* function.  The session variables are idle.                               *)

NoSession ==
    /\ rules = <<>>
    /\ suspicion_score = 0
    /\ flags = <<>>
    /\ history = <<>>
    /\ cursor = 0

SessionIdle == UNCHANGED <<mode, rules, suspicion_score, flags, history, cursor, inp>>

\* the largest suspicion score drawn
MaxScore == 130

InitVerdict ==
    /\ mode = "calculate_verdict"
    /\ pc = "call"
    /\ inp \in [score : 0..MaxScore]
    /\ out = "none"
    /\ NoSession

CallVerdict ==
    /\ mode = "calculate_verdict"
    /\ pc = "call"
    /\ out' = calculate_verdict(inp.score)
    /\ pc' = "done"
    /\ SessionIdle

NextVerdict == CallVerdict

SpecVerdict == InitVerdict /\ [][NextVerdict]_vars

(* C1: for every score s >= 0 with c = min(s, 100), the verdict is          *)
(* MALICIOUS with confidence min(0.95, c/100) iff s >= 70, SUSPICIOUS with  *)
(* min(0.75, c/100) iff 40 <= s < 70, POTENTIALLY_SUSPICIOUS with           *)
(* min(0.50, c/100) iff 20 <= s < 40, BENIGN with max(0.85, 1 - c/100) iff  *)
(* s < 20; 70 gives MALICIOUS and 69 gives SUSPICIOUS.                      *)
C1_VerdictBrackets ==
    (mode = "calculate_verdict" /\ pc = "done") =>
        LET s == inp.score
            c == IF s < 100 THEN s ELSE 100
        IN /\ (out.verdict = "MALICIOUS") <=> (s >= 70)
           /\ (out.verdict = "SUSPICIOUS") <=> (40 <= s /\ s < 70)
           /\ (out.verdict = "POTENTIALLY_SUSPICIOUS") <=> (20 <= s /\ s < 40)
           /\ (out.verdict = "BENIGN") <=> (s < 20)
           /\ s >= 70 => out.confidence = (IF c < 95 THEN c ELSE 95)
           /\ (40 <= s /\ s < 70) => out.confidence = (IF c < 75 THEN c ELSE 75)
           /\ (20 <= s /\ s < 40) => out.confidence = (IF c < 50 THEN c ELSE 50)
           /\ s < 20 => out.confidence = (IF 100 - c > 85 THEN 100 - c ELSE 85)
           /\ s = 70 => out.verdict = "MALICIOUS"
           /\ s = 69 => out.verdict = "SUSPICIOUS"

C1_Witness ==
    /\ mode = "calculate_verdict"
    /\ pc = "done"
    /\ inp.score = 70
    /\ out = [verdict |-> "MALICIOUS", confidence |-> 70]

-----------------------------------------------------------------------------
(* Harness of _evaluate_condition: a rule with the selections `selection`   *)
(* and `selection_b` and the filter `filter`, each matching one word of the *)
(* command; the conditions are chains of one connective over possibly       *)
(* negated block names, and conditions of other shapes.                     *)

w_pw == <<"p","w">>
w_tmp == <<"t","m","p">>
k_selection_b == k_selection \o <<"_","b">>
f_CommandLine_contains == k_CommandLine \o <<"|">> \o m_contains

CondSelections ==
    << <<k_selection, Dict(<< <<f_CommandLine_contains, Scalar(Sv(w_cat))>> >>)>>,
       <<k_selection_b, Dict(<< <<f_CommandLine_contains, Scalar(Sv(w_pw))>> >>)>> >>

CondFilters ==
    << <<k_filter, Dict(<< <<f_CommandLine_contains, Scalar(Sv(w_tmp))>> >>)>> >>

CondCommands ==
    { Join(<<" ">>, ws) : ws \in
        { <<>>, <<w_cat>>, <<w_pw>>, <<w_tmp>>, <<w_cat, w_pw>>, <<w_cat, w_tmp>>,
          <<w_pw, w_tmp>>, <<w_cat, w_pw, w_tmp>> } }

CommandEntry(command) == << <<k_command, Sv(command)>>, <<k_sequence_num, Iv(1)>> >>

CondNames == {k_selection, k_selection_b, k_filter}

\* the longest chain of operands drawn
MaxOperands == 3

Operands == [neg : BOOLEAN, name : CondNames]

OperandText(op) == (IF op.neg THEN s_not ELSE <<>>) \o op.name

RenderChain(ops, conn) ==
    Join(IF conn = "or" THEN s_or ELSE s_and,
         [i \in 1..Len(ops) |-> OperandText(ops[i])])

Chains ==
    UNION { [1..n -> Operands] : n \in 1..MaxOperands }

s_1_of == <<"1"," ","o","f"," ">>
s_all_of_them == <<"a","l","l"," ","o","f"," ","t","h","e","m">>

\* conditions of other shapes: quantifiers, parentheses, mixed connectives,
\* an empty condition, a number, a list of conditions
RawConditions ==
    { Sv(<<>>),
      Sv(s_1_of \o k_selection \o <<"*">>),
      Sv(s_all_of_them),
      Sv(<<"(">> \o k_selection \o s_or \o k_selection_b \o <<")">>),
      Sv(k_selection \o s_and \o <<"(">> \o k_selection_b \o s_or \o k_filter \o <<")">>),
      Sv(k_selection \o s_and \o k_selection_b \o s_or \o k_filter),
      Sv(k_selection \o s_or \o k_selection_b \o s_and \o k_filter),
      Sv(k_selection \o s_and \o s_not \o s_1_of \o k_filter \o <<"*">>),
      Iv(0), Iv(1), Lv(0), Lv(2), Nv }

CondInputs ==
    { [condition |-> Sv(RenderChain(ops, conn)), form |-> "chain", conn |-> conn,
       ops |-> ops, entry |-> CommandEntry(c)] :
         ops \in Chains, conn \in {"and", "or"}, c \in CondCommands }
    \cup
    { [condition |-> r, form |-> "raw", conn |-> "none", ops |-> <<>>,
       entry |-> CommandEntry(c)] : r \in RawConditions, c \in CondCommands }

InitCond ==
    /\ mode = "_evaluate_condition"
    /\ pc = "call"
    /\ inp \in CondInputs
    /\ out = "none"
    /\ NoSession

CallCond ==
    /\ mode = "_evaluate_condition"
    /\ pc = "call"
    /\ out' = _evaluate_condition(inp.condition, CondSelections, CondFilters,
                                  map_jsonl_to_sigma_fields(inp.entry))
    /\ pc' = "done"
    /\ SessionIdle

NextCond == CallCond

SpecCond == InitCond /\ [][NextCond]_vars

CondDone == mode = "_evaluate_condition" /\ pc = "done"

\* the block an operand names: a filter or a selection of the rule
CondBlock(name) == Get(CondFilters, name, Get(CondSelections, name, EmptyDict))

\* the block a name denotes matches the record under evaluation
BlockMatches(name) ==
    _check_selection(CondBlock(name), map_jsonl_to_sigma_fields(inp.entry)) = "True"

IsChain(conn, n) == inp.form = "chain" /\ inp.conn = conn /\ Len(inp.ops) = n

IsSelectionName(name) == HasKey(CondSelections, name)

NoneNegated == \A i \in 1..Len(inp.ops) : ~inp.ops[i].neg

(* C6: for a condition `A and not B`, evaluation is true iff block A        *)
(* matches the record and block B does not, B naming a filter or a          *)
(* selection of the rule.                                                   *)
C6_AndNot ==
    ( /\ CondDone
      /\ IsChain("and", 2)
      /\ ~inp.ops[1].neg /\ IsSelectionName(inp.ops[1].name)
      /\ inp.ops[2].neg )
    => ( out = "True" <=>
            (BlockMatches(inp.ops[1].name) /\ ~BlockMatches(inp.ops[2].name)) )

(* C7: for a condition `X1 and ... and Xn`, n >= 2, any operand possibly    *)
(* negated, evaluation is true iff every un-negated operand's block matches *)
(* and every negated operand's block does not; also for more than two       *)
(* operands and for several negated operands.                               *)
C7_AndChain ==
    ( /\ CondDone
      /\ inp.form = "chain" /\ inp.conn = "and" /\ Len(inp.ops) >= 2
      /\ \A i \in 1..Len(inp.ops) :
            ~inp.ops[i].neg => IsSelectionName(inp.ops[i].name) )
    => ( out = "True" <=>
            \A i \in 1..Len(inp.ops) :
                BlockMatches(inp.ops[i].name) <=> ~inp.ops[i].neg )

Unsupported ==
    \/ inp.form = "raw"
    \/ inp.form = "chain" /\ Len(inp.ops) = 1 /\ inp.ops[1].neg
    \/ inp.form = "chain" /\ inp.conn = "or" /\ Len(inp.ops) >= 2 /\ ~NoneNegated

(* C9: a condition outside the supported grammar (mixed and/or, a bare or   *)
(* or-combined `not`, parentheses, quantifiers, a non-string or empty       *)
(* condition) evaluates to false for every record and never raises.         *)
C9_UnsupportedIsFalse ==
    (CondDone /\ Unsupported) => out = "False"

-----------------------------------------------------------------------------
(* Harness of _check_field: the field-spec `user` or `user|<modifier>`      *)
(* against a record with a user and a command.                              *)

FieldModifiers == {NoModifier, m_contains, m_startswith, m_endswith, m_all, m_re}

FieldElements == { Sv(<<"a">>), Sv(<<"b">>), Sv(<<"a","b">>), Sv(<<"A">>) }

\* the longest list of expected values and the longest field value drawn
MaxList == 2
MaxValueLen == 3

ExpectedLists == UNION { [1..n -> FieldElements] : n \in 0..MaxList }

FieldValues ==
    UNION { [1..n -> {"a", "b"}] : n \in 0..MaxValueLen } \cup { <<"A","b">>, <<"b","A">> }

FieldInputs ==
    { [modifier |-> m, expected_values |-> ev,
       entry |-> << <<k_user, Sv(v)>>, <<k_command, Sv(<<"b","a">>)>> >>] :
         m \in FieldModifiers,
         ev \in {List(l) : l \in ExpectedLists} \cup {Scalar(e) : e \in FieldElements},
         v \in FieldValues }

InitField ==
    /\ mode = "_check_field"
    /\ pc = "call"
    /\ inp \in FieldInputs
    /\ out = "none"
    /\ NoSession

CallField ==
    /\ mode = "_check_field"
    /\ pc = "call"
    /\ out' = _check_field(FieldSpecOf(k_user, inp.modifier), inp.expected_values,
                           map_jsonl_to_sigma_fields(inp.entry))
    /\ pc' = "done"
    /\ SessionIdle

NextField == CallField

SpecField == InitField /\ [][NextField]_vars

FieldDone == mode = "_check_field" /\ pc = "done"

\* the text the field-spec is compared with: the record's user, or the
\* concatenation of command, stdout and stderr when the user is empty
ComparedText ==
    LET user == Get(inp.entry, k_user, Sv(<<>>)).s
    IN Lower(IF user # <<>> THEN user
             ELSE Get(inp.entry, k_command, Sv(<<>>)).s \o <<" ", " ">>)

\* one expected value satisfies a modifier on a text
Satisfies(modifier, expected, text) ==
    LET e == Lower(expected.s) IN
    CASE modifier = NoModifier -> e = text
      [] modifier = m_contains -> \E i \in 1..(Len(text) + 1) : OccursAt(text, e, i)
      [] modifier = m_startswith -> Len(e) <= Len(text) /\ SubSeq(text, 1, Len(e)) = e
      [] modifier = m_endswith ->
            Len(e) <= Len(text) /\ SubSeq(text, Len(text) - Len(e) + 1, Len(text)) = e

AnyModifiers == {NoModifier, m_contains, m_startswith, m_endswith}

ListAnySemantics ==
    (FieldDone /\ inp.expected_values.isList /\ inp.modifier \in AnyModifiers)
    => ( out = "True" <=>
            \E i \in 1..Len(inp.expected_values.items) :
                Satisfies(inp.modifier, inp.expected_values.items[i], ComparedText) )

(* C10 as stated: a field-spec with a list of expected values matches iff   *)
(* at least one element satisfies the modifier (none, contains, startswith, *)
(* endswith), except with `all`, where it matches iff every list element is *)
(* present in the field value.                                              *)
C10_ListSemantics ==
    /\ ListAnySemantics
    /\ (FieldDone /\ inp.expected_values.isList /\ inp.modifier = m_all)
       => ( out = "True" <=>
               \A i \in 1..Len(inp.expected_values.items) :
                   Satisfies(m_contains, inp.expected_values.items[i], ComparedText) )

(* C10 amended: as stated, except that with `all` the field-spec matches    *)
(* iff the list is not empty and every list element is present in the       *)
(* field value: an empty list matches under no modifier.                    *)
C10_ListSemanticsNonEmptyAll ==
    /\ ListAnySemantics
    /\ (FieldDone /\ inp.expected_values.isList /\ inp.modifier = m_all)
       => ( out = "True" <=>
               /\ inp.expected_values.items # <<>>
               /\ \A i \in 1..Len(inp.expected_values.items) :
                     Satisfies(m_contains, inp.expected_values.items[i], ComparedText) )

\* `user|all: [a, b]` on the user "ba": both present, neither alone is
\* the whole value
C10_Witness ==
    /\ FieldDone
    /\ inp.modifier = m_all
    /\ inp.expected_values = List(<<Sv(<<"a">>), Sv(<<"b">>)>>)
    /\ Get(inp.entry, k_user, Sv(<<>>)).s = <<"b","a">>
    /\ out = "True"

-----------------------------------------------------------------------------
(* Harness of _rule_matches for a rule whose condition is the name of its   *)
(* one selection, against records with optional command, user and stdout.   *)

w_r == <<"r">>
w_bob == <<"b","o","b">>

SelectionFieldSpecs ==
    { <<FieldSpecOf(k_user, m_contains), Scalar(Sv(w_r))>>,
      <<FieldSpecOf(k_CommandLine, m_contains), Scalar(Sv(w_cat))>>,
      <<k_a0, Scalar(Sv(w_cat))>>,
      <<FieldSpecOf(k_stdout, m_endswith), Scalar(Sv(w_r))>> }

\* the largest number of field-specs in a selection
MaxFields == 2

\* a selection is a dict: its field-specs are distinct keys
SelectionItems ==
    { items \in UNION { [1..n -> SelectionFieldSpecs] : n \in 0..MaxFields } :
        \A i, j \in 1..Len(items) : i # j => items[i][1] # items[j][1] }

Absent == "absent"

\* a record with the fields that are given
Record(command, user, stdout) ==
    (IF command = Absent THEN <<>> ELSE << <<k_command, Sv(command)>> >>)
    \o (IF user = Absent THEN <<>> ELSE << <<k_user, Sv(user)>> >>)
    \o (IF stdout = Absent THEN <<>> ELSE << <<k_stdout, Sv(stdout)>> >>)

SelectionRecords ==
    { Record(c, u, o) :
        c \in {Absent, w_cat, w_cat \o <<" ">> \o w_r, w_ls},
        u \in {Absent, w_r, w_bob},
        o \in {Absent, w_r} }

SingleSelectionRule(name, items) ==
    [detection |-> << <<name, Dict(items)>>, <<k_condition, Sv(name)>> >>]

SelectionInputs ==
    [name : {k_selection, k_selection_b}, items : SelectionItems, entry : SelectionRecords]

InitSelection ==
    /\ mode = "_rule_matches"
    /\ pc = "call"
    /\ inp \in SelectionInputs
    /\ out = "none"
    /\ NoSession

CallSelection ==
    /\ mode = "_rule_matches"
    /\ pc = "call"
    /\ out' = _rule_matches(SingleSelectionRule(inp.name, inp.items),
                            map_jsonl_to_sigma_fields(inp.entry))
    /\ pc' = "done"
    /\ SessionIdle

NextSelection == CallSelection

SpecSelection == InitSelection /\ [][NextSelection]_vars

SelectionDone == mode = "_rule_matches" /\ pc = "done"

\* field-spec i of the selection matches the record
FieldSpecMatches(i, entry) ==
    _check_field(inp.items[i][1], inp.items[i][2],
                 map_jsonl_to_sigma_fields(entry)) = "True"

\* the record without one field
Without(entry, field) ==
    LET Keep(kv) == kv[1] # field IN SelectSeq(entry, Keep)

FieldNameOf(field_spec) == Split1(field_spec, <<"|">>)[1]
ModifierOf(field_spec) ==
    IF Len(Split1(field_spec, <<"|">>)) = 2 THEN Split1(field_spec, <<"|">>)[2]
    ELSE NoModifier

\* the field of the record a field-spec reads: CommandLine and a0 are
\* derived from command
RecordFieldOf(field_spec) ==
    IF FieldNameOf(field_spec) \in {k_CommandLine, k_a0, k_Image} THEN k_command
    ELSE FieldNameOf(field_spec)

\* the concatenation of command, stdout and stderr of a record
FullText(entry) ==
    Get(entry, k_command, Sv(<<>>)).s \o <<" ">> \o Get(entry, k_stdout, Sv(<<>>)).s
        \o <<" ">> \o Get(entry, k_stderr, Sv(<<>>)).s

MatchesAfterRemoval(field) ==
    _rule_matches(SingleSelectionRule(inp.name, inp.items),
                  map_jsonl_to_sigma_fields(Without(inp.entry, field))) = "True"

(* C5 as stated: a rule whose condition is a single selection name matches  *)
(* a record iff every field-spec of the selection matches the record, and   *)
(* removing from the record any one field that a field-spec matched flips   *)
(* the result to non-match.                                                 *)
C5_SelectionAnd ==
    SelectionDone =>
        /\ out = "True" <=> \A i \in 1..Len(inp.items) : FieldSpecMatches(i, inp.entry)
        /\ out = "True" =>
              \A i \in 1..Len(inp.items) :
                  HasKey(inp.entry, RecordFieldOf(inp.items[i][1]))
                      => ~MatchesAfterRemoval(RecordFieldOf(inp.items[i][1]))

(* C5 amended: the rule matches iff the selection is not empty and every    *)
(* field-spec in it matches the record; removing from the record a field    *)
(* that a field-spec matched flips the result to non-match whenever that    *)
(* field-spec does not match the concatenation of the remaining command,    *)
(* stdout and stderr, which is what an absent field is compared with.       *)
C5_SelectionAndWithFallback ==
    SelectionDone =>
        /\ out = "True" <=>
              /\ inp.items # <<>>
              /\ \A i \in 1..Len(inp.items) : FieldSpecMatches(i, inp.entry)
        /\ out = "True" =>
              \A i \in 1..Len(inp.items) :
                  LET field == RecordFieldOf(inp.items[i][1])
                      text == Lower(FullText(Without(inp.entry, field)))
                  IN ( /\ HasKey(inp.entry, field)
                       /\ ~Satisfies(ModifierOf(inp.items[i][1]),
                                     inp.items[i][2].items[1], text) )
                     => ~MatchesAfterRemoval(field)

\* a matching selection of two field-specs, one of them on the user, on a
\* record whose command and output do not contain what the user matched
C5_Witness ==
    /\ SelectionDone
    /\ out = "True"
    /\ Len(inp.items) = 2
    /\ inp.items[1][1] = FieldSpecOf(k_user, m_contains)
    /\ inp.entry = Record(w_cat, w_r, Absent)
    /\ ~MatchesAfterRemoval(k_user)

-----------------------------------------------------------------------------
(* Harness of _check_field on two spellings of one input: the field value  *)
(* and the expected values as drawn, and both in lower case.               *)

\* the longest field value and expected value drawn in two spellings
MaxCaseLen == 2

CaseLetters == {"a", "b", "A", "B"}

\* the lower-case spelling, letter by letter
SmallLetter(c) == IF c = "A" THEN "a" ELSE IF c = "B" THEN "b" ELSE c
Small(s) == [i \in 1..Len(s) |-> SmallLetter(s[i])]
SmallValues(ev) ==
    [isList |-> ev.isList, items |-> [i \in 1..Len(ev.items) |-> Sv(Small(ev.items[i].s))]]

CaseStrings == UNION { [1..n -> CaseLetters] : n \in 0..MaxCaseLen }

CaseExpected ==
    { Scalar(Sv(e)) : e \in CaseStrings \ {<<>>} }
    \cup { List([i \in 1..Len(l) |-> Sv(<<l[i]>>)]) :
              l \in UNION { [1..n -> CaseLetters] : n \in 0..MaxList } }

CaseModifiers == {NoModifier, m_contains, m_startswith, m_endswith, m_all}

c_cat_PASSWD == <<"c","a","t"," ","/","e","t","c","/","P","A","S","S","W","D">>

CaseInputs ==
    { [field_spec |-> FieldSpecOf(k_user, m), expected_values |-> ev,
       entry |-> << <<k_user, Sv(v)>>, <<k_command, Sv(<<"b","A">>)>> >>,
       small_values |-> SmallValues(ev),
       small_entry |-> << <<k_user, Sv(Small(v))>>, <<k_command, Sv(<<"b","a">>)>> >>] :
         m \in CaseModifiers, ev \in CaseExpected, v \in CaseStrings }
    \cup
    { [field_spec |-> FieldSpecOf(k_CommandLine, m_contains),
       expected_values |-> Scalar(Sv(w_passwd)),
       entry |-> << <<k_command, Sv(c_cat_PASSWD)>> >>,
       small_values |-> Scalar(Sv(w_passwd)),
       small_entry |-> << <<k_command, Sv(c_cat_passwd)>> >>] }

InitCase ==
    /\ mode = "_check_field, two spellings"
    /\ pc = "call"
    /\ inp \in CaseInputs
    /\ out = "none"
    /\ NoSession

CallCase ==
    /\ mode = "_check_field, two spellings"
    /\ pc = "call"
    /\ out' = [ drawn |-> _check_field(inp.field_spec, inp.expected_values,
                                       map_jsonl_to_sigma_fields(inp.entry)),
                small |-> _check_field(inp.field_spec, inp.small_values,
                                       map_jsonl_to_sigma_fields(inp.small_entry)) ]
    /\ pc' = "done"
    /\ SessionIdle

NextCase == CallCase

SpecCase == InitCase /\ [][NextCase]_vars

CaseDone == mode = "_check_field, two spellings" /\ pc = "done"

\* C11: with the modifiers none, contains, startswith, endswith and all, the
\* result of a field-spec on a record is the result it has when the field
\* value and the expected values are written in lower case: the letter case
\* of either never changes the match.
C11_CaseInsensitive ==
    CaseDone => out.drawn = out.small

\* a selection expecting passwd on a command that contains PASSWD
C11_Witness ==
    /\ CaseDone
    /\ inp.expected_values = Scalar(Sv(w_passwd))
    /\ inp.entry = << <<k_command, Sv(c_cat_PASSWD)>> >>
    /\ out.drawn = "True"

-----------------------------------------------------------------------------
(* Harness of _rule_matches on the names of the detection keys: a rule     *)
(* with the block `selection`, one more block under a drawn name, and a    *)
(* condition that names the drawn block alone or negated.                  *)

w_keywords == <<"k","e","y","w","o","r","d","s">>
w_sel == <<"s","e","l">>
k_filter_x == k_filter \o <<"_","x">>

BlockNames == {k_selection, k_selection_b, w_keywords, w_sel, k_filter, k_filter_x}

BlockItems ==
    { << <<FieldSpecOf(k_user, m_contains), Scalar(Sv(w_r))>> >>,
      << <<k_a0, Scalar(Sv(w_cat))>> >> }

BaseItems == << <<FieldSpecOf(k_CommandLine, m_contains), Scalar(Sv(w_cat))>> >>

BlockInputs ==
    { i \in [name : BlockNames, items : BlockItems, form : {"alone", "negated"},
             entry : SelectionRecords] :
        i.form = "negated" => i.name # k_selection }

\* the rule of an input
BlockRule(i) ==
    [detection |->
        IF i.form = "alone"
        THEN << <<i.name, Dict(i.items)>>, <<k_condition, Sv(i.name)>> >>
        ELSE << <<k_selection, Dict(BaseItems)>>, <<i.name, Dict(i.items)>>,
                <<k_condition, Sv(k_selection \o <<" ">> \o s_and_not \o <<" ">> \o i.name)>> >>]

InitBlocks ==
    /\ mode = "_rule_matches, block names"
    /\ pc = "call"
    /\ inp \in BlockInputs
    /\ out = "none"
    /\ NoSession

CallBlocks ==
    /\ mode = "_rule_matches, block names"
    /\ pc = "call"
    /\ out' = _rule_matches(BlockRule(inp), map_jsonl_to_sigma_fields(inp.entry))
    /\ pc' = "done"
    /\ SessionIdle

NextBlocks == CallBlocks

SpecBlocks == InitBlocks /\ [][NextBlocks]_vars

BlocksDone == mode = "_rule_matches, block names" /\ pc = "done"

\* a block of field-specs matches the record of the input
ItemsMatch(items) ==
    _check_selection(Dict(items), map_jsonl_to_sigma_fields(inp.entry)) = "True"

\* C12: every key of the detection mapping but `condition` is a block the
\* condition can name.  A key that does not start with `filter` is a
\* selection: the condition that names it alone is true iff the block
\* matches the record.  A key that starts with `filter` is a filter:
\* `selection and not <key>` is true iff selection matches and the block
\* does not.
C12_EveryKeyIsABlock ==
    BlocksDone =>
        /\ (inp.form = "alone" /\ ~StartsWith(inp.name, k_filter))
              => (out = "True" <=> ItemsMatch(inp.items))
        /\ (inp.form = "negated" /\ StartsWith(inp.name, k_filter))
              => (out = "True" <=> (ItemsMatch(BaseItems) /\ ~ItemsMatch(inp.items)))

-----------------------------------------------------------------------------
(* Harness of _check_field on the value a field-spec is compared with: a   *)
(* field-spec on user or on exit_code, and records in which the field is   *)
(* absent, empty, or present with a value.                                 *)

k_exit_code == <<"e","x","i","t","_","c","o","d","e">>
w_0 == <<"0">>
w_1 == <<"1">>

OwnValueSpecs ==
    { [field |-> f, modifier |-> m, expected |-> e] :
        f \in {k_user, k_exit_code}, m \in {NoModifier, m_contains, m_startswith},
        e \in {Sv(w_0), Sv(w_1), Sv(w_r)} }

OwnValues == {Sv(<<>>), Sv(w_r), Sv(w_0), Iv(0), Iv(1)}

\* a field that may be missing: no value or one value
Maybe(values) == {<<>>} \cup {<<v>> : v \in values}
FieldOf(key, maybe) == [i \in 1..Len(maybe) |-> <<key, maybe[i]>>]

OwnValueRecords ==
    { FieldOf(k_command, c) \o FieldOf(k_user, u) \o FieldOf(k_exit_code, x)
      \o FieldOf(k_stdout, o) \o FieldOf(k_stderr, e) :
        c \in Maybe({Sv(w_ls), Sv(w_r)}),
        u \in Maybe(OwnValues),
        x \in Maybe({Iv(0), Iv(1)}),
        o \in Maybe({Sv(w_0), Sv(w_r)}),
        e \in Maybe({Sv(w_1)}) }

OwnValueInputs == [spec : OwnValueSpecs, entry : OwnValueRecords]

InitOwnValue ==
    /\ mode = "_check_field, compared value"
    /\ pc = "call"
    /\ inp \in OwnValueInputs
    /\ out = "none"
    /\ NoSession

CallOwnValue ==
    /\ mode = "_check_field, compared value"
    /\ pc = "call"
    /\ out' = _check_field(FieldSpecOf(inp.spec.field, inp.spec.modifier),
                           Scalar(inp.spec.expected),
                           map_jsonl_to_sigma_fields(inp.entry))
    /\ pc' = "done"
    /\ SessionIdle

NextOwnValue == CallOwnValue

SpecOwnValue == InitOwnValue /\ [][NextOwnValue]_vars

OwnValueDone == mode = "_check_field, compared value" /\ pc = "done"

\* the field is on the record with a value: a string that is not empty, or
\* a number, 0 included
PresentWithValue(entry, field) ==
    /\ HasKey(entry, field)
    /\ Get(entry, field, Sv(<<>>)) # Sv(<<>>)

\* the text of a value: the digits of a number
TextOf(v) ==
    IF v.t = "int" THEN (IF v.n = 0 THEN w_0 ELSE w_1) ELSE v.s

OwnValueFirst ==
    LET field == inp.spec.field
        text == IF PresentWithValue(inp.entry, field)
                THEN TextOf(Get(inp.entry, field, Sv(<<>>)))
                ELSE FullText(inp.entry)
    IN out = "True" <=> Satisfies(inp.spec.modifier, inp.spec.expected, Lower(text))

\* C13: a field-spec is compared with the record's own value of the field
\* whenever the field is present with a value, the value 0 of exit_code
\* included, and with the concatenation of command, stdout and stderr only
\* when the field is absent or empty; so stdout and stderr have no part in
\* the match on a field that is present with a value.
C13_OwnValueFirst ==
    OwnValueDone => OwnValueFirst

-----------------------------------------------------------------------------
(* Harness of analyze_entry on records without a command, with the rules   *)
(* of the rule directory loaded.                                           *)

w_root == <<"r","o","o","t">>
w_etc_passwd == <<"/","e","t","c","/","p","a","s","s","w","d">>

NoCommandRecords ==
    { FieldOf(k_sequence_num, n) \o FieldOf(k_user, u)
      \o FieldOf(k_stdout, o) \o FieldOf(k_stderr, e) :
        n \in Maybe({Iv(1), Iv(2)}),
        u \in Maybe({Sv(w_root), Sv(w_ls)}),
        o \in Maybe({Sv(<<>>), Sv(w_r), Sv(w_etc_passwd), Sv(w_ls)}),
        e \in Maybe({Sv(w_r), Sv(w_post)}) }

InitNoCommand ==
    /\ mode = "analyze_entry"
    /\ pc = "call"
    /\ inp \in [entry : NoCommandRecords]
    /\ out = "none"
    /\ rules = LoadedRules(RuleRepo)
    /\ suspicion_score = 0
    /\ flags = <<>>
    /\ history = <<>>
    /\ cursor = 0

\* what analyze_entry leaves: the score, and the flags it returns
Returned(r) ==
    /\ suspicion_score' = suspicion_score + r.added
    /\ out' = [flags |-> r.flags, raised |-> r.raised]

CallAnalyzeEntry ==
    /\ mode = "analyze_entry"
    /\ pc = "call"
    /\ Returned(analyze_entry(rules, inp.entry))
    /\ pc' = "done"
    /\ UNCHANGED <<mode, rules, flags, history, cursor, inp>>

NextNoCommand == CallAnalyzeEntry

SpecNoCommand == InitNoCommand /\ [][NextNoCommand]_vars

NoCommandDone == mode = "analyze_entry" /\ pc = "done"

\* C14: analyze_entry on a record without a command raises nothing, returns
\* no flags and leaves the suspicion score as it was, whatever the other
\* fields of the record hold.
C14_NoCommandIsNoOp ==
    (NoCommandDone /\ ~HasKey(inp.entry, k_command)) =>
        /\ ~out.raised
        /\ out.flags = <<>>
        /\ suspicion_score = 0

-----------------------------------------------------------------------------
(* Harness of the rule loader: a directory of rule documents is loaded     *)
(* once or several times by load_rules, and a record is then analysed.     *)

w_Linux == <<"L","i","n","u","x">>
w_sshd == <<"s","s","h","d">>
w_dns == <<"d","n","s">>

\* a document of a rule that matches every record with a command
SourceDoc(id, logsource) ==
    RuleDocOf(id, "low", logsource,
              << <<FieldSpecOf(k_CommandLine, m_contains), Scalar(Sv(<<" ">>))>> >>)

SourceDocs ==
    { SourceDoc("product linux", << <<k_product, Sv(w_linux)>> >>),
      SourceDoc("product Linux", << <<k_product, Sv(w_Linux)>> >>),
      SourceDoc("product windows", << <<k_product, Sv(w_windows)>> >>),
      SourceDoc("service auditd", << <<k_service, Sv(w_auditd)>> >>),
      SourceDoc("service syslog", << <<k_service, Sv(w_syslog)>> >>),
      SourceDoc("service cron", << <<k_product, Sv(w_windows)>>, <<k_service, Sv(w_cron)>> >>),
      SourceDoc("service sshd", << <<k_service, Sv(w_sshd)>> >>),
      SourceDoc("category process_creation", << <<k_category, Sv(w_process_creation)>> >>),
      SourceDoc("category file_event",
                << <<k_product, Sv(w_windows)>>, <<k_category, Sv(w_file_event)>> >>),
      SourceDoc("category dns", << <<k_category, Sv(w_dns)>> >>),
      SourceDoc("no logsource", <<>>) }

BadDocs ==
    { [kind |-> "empty", data |-> <<>>],
      [kind |-> "unparseable", data |-> <<>>],
      [kind |-> "not a mapping", data |-> <<>>] }

\* the largest number of documents in a directory, and of calls of
\* load_rules
MaxDocs == 2
MaxLoads == 2

\* the documents of a directory; the rules in it have distinct ids
Directories ==
    { d \in UNION { [1..n -> SourceDocs \cup BadDocs] : n \in 0..MaxDocs } :
        \A i, j \in 1..Len(d) : (i # j /\ d[i].kind = "rule") => d[i] # d[j] }

LoaderRecords == { TraceEntry(1, c_ls), TraceEntry(2, c_cat_passwd) }

InitLoader ==
    /\ mode = "load_rules"
    /\ pc = "start"
    /\ inp \in [repo : Directories]
    /\ out = [count |-> 0, loads |-> 0]
    /\ NoSession

\* SigmaDetectionEngine.load_rules: load_all_linux_rules appends to the
\* loader's list, which is the engine's list from the first call on
Load ==
    /\ mode = "load_rules"
    /\ pc \in {"start", "loaded"}
    /\ out.loads < MaxLoads
    /\ rules' = rules \o LoadedRules(inp.repo)
    /\ out' = [count |-> Len(LoadedRules(inp.repo)), loads |-> out.loads + 1]
    /\ pc' = "loaded"
    /\ UNCHANGED <<mode, suspicion_score, flags, history, cursor, inp>>

Extended(entry, r) ==
    /\ suspicion_score' = suspicion_score + r.added
    /\ flags' = flags \o r.flags
    /\ history' = Append(history, entry)

\* a record is analysed with the rules that are loaded
AnalyzeLoaded ==
    /\ mode = "load_rules"
    /\ pc = "loaded"
    /\ \E entry \in LoaderRecords : Extended(entry, analyze_entry(rules, entry))
    /\ pc' = "analysed"
    /\ UNCHANGED <<mode, rules, cursor, inp, out>>

NextLoader == Load \/ AnalyzeLoaded

SpecLoader == InitLoader /\ [][NextLoader]_vars

LoaderDone == mode = "load_rules" /\ pc \in {"loaded", "analysed"}

\* the logsource of a document names Linux activity
NamesLinux(doc) ==
    LET logsource == doc.data.logsource IN
    \/ Get(logsource, k_product, Sv(<<>>)).s \in {w_linux, w_Linux}
    \/ Get(logsource, k_service, Sv(<<>>)).s \in {w_auditd, w_syslog, w_cron}
    \/ Get(logsource, k_category, Sv(<<>>)).s \in {w_process_creation, w_file_event}

IsLoaded(doc) == \E i \in 1..Len(rules) : rules[i].id = doc.data.id

HasFlag(doc) ==
    \E i \in 1..Len(flags) :
        flags[i].category = "sigma_detection" /\ flags[i].rule_id = doc.data.id

\* C15: after a load, a parsed rule is among the engine's rules iff its
\* logsource has the product linux (in any letter case), or a service among
\* auditd, syslog and cron, or a category among process_creation and
\* file_event; a rule that is not among them flags no record.
C15_RetainedIffLinux ==
    LoaderDone =>
        \A i \in 1..Len(inp.repo) :
            inp.repo[i].kind = "rule" =>
                /\ IsLoaded(inp.repo[i]) <=> NamesLinux(inp.repo[i])
                /\ ~NamesLinux(inp.repo[i]) => ~HasFlag(inp.repo[i])

\* a directory with a retained and a discarded rule, after a record that
\* both rules match has been analysed
C15_Witness ==
    /\ mode = "load_rules"
    /\ pc = "analysed"
    /\ Len(inp.repo) = 2
    /\ inp.repo[1].kind = "rule" /\ inp.repo[1].data.id = "service sshd"
    /\ inp.repo[2].kind = "rule" /\ inp.repo[2].data.id = "service cron"
    /\ HasFlag(inp.repo[2])
    /\ ~IsLoaded(inp.repo[1])

\* the rules of the documents that are rules of Linux activity, in the
\* order of the directory
RECURSIVE ValidRelevant(_)
ValidRelevant(docs) ==
    IF docs = <<>> THEN <<>>
    ELSE (IF docs[1].kind = "rule" /\ NamesLinux(docs[1])
          THEN <<docs[1].data.id>> ELSE <<>>)
         \o ValidRelevant(Tail(docs))

\* C16: a document that does not parse, is empty or is not a mapping is
\* passed over wherever it stands in the directory: the first load returns
\* normally with every valid rule of Linux activity loaded, and its count
\* is their number, 0 when there is none.
C16_BadDocumentsSkipped ==
    (LoaderDone /\ out.loads = 1) =>
        /\ [i \in 1..Len(rules) |-> rules[i].id] = ValidRelevant(inp.repo)
        /\ out.count = Len(ValidRelevant(inp.repo))

\* a directory whose first document does not parse and whose second is a
\* rule that is loaded; and a load of no rule
C16_Witness ==
    /\ LoaderDone
    /\ out.loads = 1
    /\ Len(inp.repo) = 2
    /\ inp.repo[1].kind = "unparseable"
    /\ inp.repo[2].kind = "rule"
    /\ out.count = 1
    /\ Len(rules) = 1

\* C17: loading is idempotent.  After two or more calls of load_rules on
\* the same directory the engine has the rules it has after one call, and
\* a record that matches a rule has one flag for that rule.
C17_LoadIdempotent ==
    (LoaderDone /\ out.loads >= 1) =>
        /\ [i \in 1..Len(rules) |-> rules[i].id] = ValidRelevant(inp.repo)
        /\ \A i \in 1..Len(rules) :
              Cardinality({k \in 1..Len(flags) :
                              flags[k].category = "sigma_detection"
                              /\ flags[k].rule_id = rules[i].id}) <= 1

-----------------------------------------------------------------------------
(* Harness of detect_behavioral_anomalies: a session's history grows       *)
(* record by record, and the behavioural checks run on it, once or again.  *)

c_echo_history == <<"e","c","h","o"," ","h","i","s","t","o","r","y">>
c_c_1 == <<"-","c"," ","1">>
c_history_c == <<"h","i","s","t","o","r","y"," ","-","c">>

BehaviorCommands ==
    {c_cat_passwd, c_base64, c_curl, c_echo_history, c_c_1, c_history_c}

\* the longest history, and the largest number of runs of the checks
MaxHistory == 3
MaxRuns == 2

InitBehavior ==
    /\ mode = "detect_behavioral_anomalies"
    /\ pc = "session"
    /\ inp = "none"
    /\ out = [runs |-> 0, emitted |-> <<>>, added |-> 0, on |-> <<>>]
    /\ NoSession

\* a record joins the history
Record_command ==
    /\ mode = "detect_behavioral_anomalies"
    /\ Len(history) < MaxHistory
    /\ \E c \in BehaviorCommands :
          history' = Append(history, TraceEntry(Len(history) + 1, c))
    /\ UNCHANGED <<mode, pc, rules, suspicion_score, flags, cursor, inp, out>>

Checked(r) ==
    /\ flags' = flags \o r.flags
    /\ suspicion_score' = suspicion_score + r.added
    /\ out' = [runs |-> out.runs + 1, emitted |-> r.flags, added |-> r.added, on |-> history]

\* detector.detect_behavioral_anomalies(entries)
RunChecks ==
    /\ mode = "detect_behavioral_anomalies"
    /\ out.runs < MaxRuns
    /\ Checked(detect_behavioral_anomalies(history))
    /\ UNCHANGED <<mode, pc, rules, history, cursor, inp>>

NextBehavior == Record_command \/ RunChecks

SpecBehavior == InitBehavior /\ [][NextBehavior]_vars

BehaviorRan == mode = "detect_behavioral_anomalies" /\ out.runs >= 1

\* some record of the history the checks ran on has one of the markers in
\* its command
SomeRecordHas(markers) ==
    \E i \in 1..Len(out.on) : \E p \in markers : In(p, CommandOf(out.on[i]))

Emitted(pattern) ==
    {k \in 1..Len(out.emitted) : out.emitted[k].pattern_matched = pattern}

\* a history with the records at two places exchanged; every order of a
\* history is reached by such exchanges
Exchanged(h, a, b) ==
    [i \in 1..Len(h) |-> IF i = a THEN h[b] ELSE IF i = b THEN h[a] ELSE h[i]]

\* C18: a run of the behavioural checks emits the exfiltration-chain flag,
\* of severity 40 and with 40 added to the score, iff some record of the
\* history has a sensitive-read marker, some record an encode marker and
\* some record an upload marker; exchanging two records of the history
\* gives the same.
C18_ExfiltrationChain ==
    BehaviorRan =>
        LET chain == /\ SomeRecordHas(SensitiveReadMarkers)
                     /\ SomeRecordHas(EncodingMarkers)
                     /\ SomeRecordHas(UploadMarkers)
        IN /\ Emitted("exfiltration_chain") # {} <=> chain
           /\ Cardinality(Emitted("exfiltration_chain")) <= 1
           /\ \A k \in Emitted("exfiltration_chain") : out.emitted[k].severity = 40
           /\ out.added = SumSeverity(out.emitted)
           /\ \A a, b \in 1..Len(out.on) :
                 a < b => has_exfiltration_chain(Exchanged(out.on, a, b)) = chain

\* the upload, the encoding and the read, in this order
C18_Witness ==
    /\ BehaviorRan
    /\ Len(out.on) = 3
    /\ CommandOf(out.on[1]) = c_curl
    /\ CommandOf(out.on[2]) = c_base64
    /\ CommandOf(out.on[3]) = c_cat_passwd
    /\ Emitted("exfiltration_chain") # {}
    /\ out.added = 40

\* C19: a run of the behavioural checks emits the anti-forensics flag, of
\* severity 25, iff some single record of the history has a history-clearing
\* or a log-redirection marker in its command; a marker that only the text
\* of two adjacent records put together contains does not count.
C19_AntiForensicsPerRecord ==
    BehaviorRan =>
        /\ Emitted("anti_forensics") # {}
              <=> (SomeRecordHas(HistoryClearingMarkers) \/ SomeRecordHas(LogTamperingMarkers))
        /\ \A k \in Emitted("anti_forensics") : out.emitted[k].severity = 25

BehaviorPatterns ==
    {"credential_enumeration", "exfiltration_chain", "persistence_attempt", "anti_forensics"}

\* what a condition has added to the score when the session has its flag
Reported(pattern, severity) ==
    IF \E k \in 1..Len(flags) : flags[k].pattern_matched = pattern THEN severity ELSE 0

\* C20: running the behavioural checks again, on the same or on a grown
\* history, does not count a condition twice: the session has at most one
\* flag of each condition, and the score is the sum of the severities of
\* these flags.
C20_NoDoubleCount ==
    mode = "detect_behavioral_anomalies" =>
        /\ \A p \in BehaviorPatterns :
              Cardinality({k \in 1..Len(flags) : flags[k].pattern_matched = p}) <= 1
        /\ suspicion_score = Reported("credential_enumeration", 20)
                             + Reported("exfiltration_chain", 40)
                             + Reported("persistence_attempt", 30)
                             + Reported("anti_forensics", 25)

-----------------------------------------------------------------------------
(* The batch analysis alone, over traces that also hold a line with a JSON  *)
(* value that is no record and a record whose command is a number.  The     *)
(* loops of analyze_trace are sequential code: a step that can be taken is  *)
(* taken (weak fairness of the next-state action).                          *)

NumberEntry ==
    << <<k_session_id, Sv(<<"s","1">>)>>, <<k_sequence_num, Iv(2)>>,
       <<k_command, Iv(5)>> >>

ValueLine == [kind |-> "value", entry |-> <<>>]
BlankLine == [kind |-> "blank", entry |-> <<>>]
MalformedLine == [kind |-> "malformed", entry |-> <<>>]

BatchLines ==
    { EntryLine(TraceEntry(1, c_history_c)), EntryLine(TraceEntry(2, c_ls)),
      EntryLine(NumberEntry), ValueLine, BlankLine, MalformedLine }

BatchTraces == UNION { [1..n -> BatchLines] : n \in 0..MaxTrace }

InitBatch ==
    /\ mode = "batch"
    /\ pc = "start"
    /\ rules = <<>>
    /\ suspicion_score = 0
    /\ flags = <<>>
    /\ history = <<>>
    /\ cursor = 0
    /\ inp \in [trace : BatchTraces, repo : {<<>>}]
    /\ out = "none"

NextBatch ==
    \/ LoadTrace
    \/ BatchAnalyze
    \/ BatchBehavior
    \/ BatchReport

SpecBatch == InitBatch /\ [][NextBatch]_vars /\ WF_vars(NextBatch)

\* the flags of the records and what they add to the score: the loop of
\* analyze_trace as a whole
RECURSIVE AnalyzeCommands(_)
AnalyzeCommands(entries) ==
    IF entries = <<>> THEN [flags |-> <<>>, added |-> 0]
    ELSE Only({ [flags |-> r.flags \o rest.flags, added |-> r.added + rest.added] :
                r \in {analyze_command(entries[1])},
                rest \in {AnalyzeCommands(Tail(entries))} })

RecordFlags(entries) == AnalyzeCommands(entries).flags
RecordScore(entries) == AnalyzeCommands(entries).added

BatchEnded == pc \in {"done", "crashed"}

BatchOrder ==
    \E entries \in {ParsedEntries(inp.trace)} :
    /\ cursor <= Len(entries)
    /\ history = SubSeq(entries, 1, cursor)
    /\ pc \in {"start", "analyze", "crashed"} =>
            \E records \in {AnalyzeCommands(history)} :
                /\ flags = records.flags
                /\ suspicion_score = records.added
    /\ pc \in {"verdict", "done"} /\ entries # <<>> =>
            \E records \in {AnalyzeCommands(entries)},
               behavior \in {detect_behavioral_anomalies(entries)} :
                /\ cursor = Len(entries)
                /\ flags = records.flags \o behavior.flags
                /\ suspicion_score = records.added + behavior.added
    /\ pc = "done" /\ entries # <<>> =>
            /\ out.verdict = calculate_verdict(suspicion_score).verdict
            /\ out.total_commands = Len(entries)

NothingAfterBehavior ==
    pc \in {"verdict", "done", "crashed"} =>
        UNCHANGED <<history, cursor, flags, suspicion_score>> /\ pc' # "analyze"

-----------------------------------------------------------------------------
(* analyze_trace as a function of the lines of the file *)

analyze_trace(trace) ==
    LET entries == ParsedEntries(trace)
        raised == \/ \E i \in 1..Len(load_trace(trace)) : load_trace(trace)[i].kind = "value"
                  \/ NonStringCommand(entries)
    IN IF entries = <<>> THEN [raised |-> FALSE, report |-> UnknownReport]
       ELSE IF raised THEN [raised |-> TRUE, report |-> <<>>]
       ELSE Only({ [ raised |-> FALSE,
                     report |->
                        [ verdict |-> calculate_verdict(score).verdict,
                          confidence |-> calculate_verdict(score).confidence,
                          suspicion_score |-> score,
                          normalized_score |-> Min(score, 100),
                          session_id |-> Get(entries[1], k_session_id, Sv(w_unknown)),
                          total_commands |-> Len(entries),
                          flags_count |-> Len(found),
                          flags |-> SortedBySeverity(found) ] ] :
                   found \in {RecordFlags(entries) \o detect_behavioral_anomalies(entries).flags},
                   score \in {RecordScore(entries) + detect_behavioral_anomalies(entries).added} })

IsMalformed(line) == line.kind = "malformed"
IsWellFormed(line) == ~IsMalformed(line)

\* the same trace with the lines that are not JSON removed
WithoutMalformed(trace) == SelectSeq(trace, IsWellFormed)

\* the number of lines that parse
ParsedLines(trace) == Cardinality({i \in 1..Len(trace) : Parses(trace[i])})

MalformedNotCounted ==
    (mode = "batch" /\ pc = "done") =>
        /\ out.total_commands = ParsedLines(inp.trace)
        /\ out = analyze_trace(WithoutMalformed(inp.trace)).report

MalformedPassedOver ==
    (mode = "live" /\ pc = "follow" /\ cursor < Len(inp.trace)
        /\ IsMalformed(inp.trace[cursor + 1]) /\ cursor' = cursor + 1) =>
            /\ pc' = "follow"
            /\ UNCHANGED <<flags, suspicion_score, history, out>>

\* C22: a batch run over a trace reports as total_commands the number of
\* lines that parse, and its report (flags, score, verdict) is the report of
\* the same trace with the lines that are not JSON removed; the live loop
\* passes over a line that is not JSON without stopping and without any
\* change of the flags, the score or the history.
C22_MalformedSkipped ==
    []MalformedNotCounted /\ [][MalformedPassedOver]_vars

\* a report of a trace with a line that is not JSON between two records
C22_Witness ==
    /\ mode = "batch"
    /\ pc = "done"
    /\ Len(inp.trace) = 3
    /\ inp.trace[1].kind = "entry"
    /\ IsMalformed(inp.trace[2])
    /\ inp.trace[3].kind = "entry"
    /\ out.total_commands = 2
    /\ out.flags_count > 0

-----------------------------------------------------------------------------
(* The report of a trace without a line that parses *)

NothingParsed == mode = "batch" /\ pc = "done" /\ ParsedLines(inp.trace) = 0

\* C23: the report of a trace that is empty, or has no line that parses,
\* has verdict UNKNOWN, confidence 0, flags_count 0 and total_commands 0.
C23_EmptyTraceUnknown ==
    NothingParsed =>
        /\ out.verdict = "UNKNOWN"
        /\ out.confidence = 0
        /\ out.total_commands = 0
        /\ "flags_count" \in DOMAIN out
        /\ out.flags_count = 0

-----------------------------------------------------------------------------
(* detect_malicious_agent.py main: the batch entry point.  inp.args is the  *)
(* number of arguments after the script name, inp.file tells whether the    *)
(* trace file is there, inp.trace holds its lines.  An exception nothing    *)
(* catches ends the interpreter with a traceback and exit code 1.           *)

MainFiles == {"present", "missing"}

\* the keys print_cli_report reads with report[...]
PrintedKeys ==
    {"verdict", "confidence", "suspicion_score", "session_id", "total_commands",
     "trace_file", "flags_count", "flags"}

\* the keys of the report analyze_trace returns: the report of a trace with
\* entries also has analyzed_at and trace_file
ReportKeys(report) ==
    IF "error" \in DOMAIN report THEN DOMAIN report
    ELSE DOMAIN report \cup {"analyzed_at", "trace_file"}

InitMain ==
    /\ mode = "main"
    /\ pc = "start"
    /\ rules = <<>>
    /\ suspicion_score = 0
    /\ flags = <<>>
    /\ history = <<>>
    /\ cursor = 0
    /\ inp \in [args : {0, 1, 2}, file : MainFiles, trace : BatchTraces]
    /\ out = [exit_code |-> "none", report |-> "none"]

\* main up to the return of analyze_trace: the usage message, load_trace's
\* sys.exit(1), an exception of the analysis, or the report
Analyzed(r) ==
    IF r.raised
    THEN pc' = "exited" /\ out' = [exit_code |-> 1, report |-> "none"]
    ELSE pc' = "print" /\ out' = [exit_code |-> "none", report |-> r.report]

MainAnalyze ==
    /\ mode = "main"
    /\ pc = "start"
    /\ IF inp.args = 0 \/ inp.file = "missing"
       THEN pc' = "exited" /\ out' = [exit_code |-> 1, report |-> "none"]
       ELSE Analyzed(analyze_trace(inp.trace))
    /\ UNCHANGED <<mode, rules, suspicion_score, flags, history, cursor, inp>>

\* print_cli_report(report): report[key] of a missing key raises KeyError
MainPrint ==
    /\ mode = "main"
    /\ pc = "print"
    /\ IF PrintedKeys \subseteq ReportKeys(out.report)
       THEN pc' = "save" /\ out' = out
       ELSE pc' = "exited" /\ out' = [out EXCEPT !.exit_code = 1]
    /\ UNCHANGED <<mode, rules, suspicion_score, flags, history, cursor, inp>>

\* save_json_report, to the named file or to the default one, and the end
\* of main
MainSave ==
    /\ mode = "main"
    /\ pc = "save"
    /\ pc' = "exited"
    /\ out' = [out EXCEPT !.exit_code = 0]
    /\ UNCHANGED <<mode, rules, suspicion_score, flags, history, cursor, inp>>

NextMain == MainAnalyze \/ MainPrint \/ MainSave

SpecMain == InitMain /\ [][NextMain]_vars

MainExited == mode = "main" /\ pc = "exited"

\* C24: the batch entry point, given a trace file, ends with exit code 0
\* when the file can be opened, the empty trace with its UNKNOWN report
\* included, and with exit code 1 only when the file cannot be opened.
C24_ExitCodes ==
    (MainExited /\ inp.args >= 1) =>
        /\ inp.file = "present" => out.exit_code = 0
        /\ out.exit_code = 1 => inp.file = "missing"

-----------------------------------------------------------------------------
(* live_monitor.py: follow_file and the loop of main, with a writer that    *)
(* creates the trace file and appends to it.  inp.file is the text of the   *)
(* file, inp.todo the pieces the writer still has to write, cursor the      *)
(* position of the reader in the file, inp.yielded the lines the generator  *)
(* has yielded, history the records the loop has analysed.  The generator   *)
(* and the loop are one thread: its steps are taken when they can be (weak  *)
(* fairness); nothing is assumed of the writer.                             *)

\* the most records the writer writes
MaxLines == 2

\* json.dumps(entry) + "\n" for the record of sequence number k
LineOf(k) == <<"{", Digit(k), "}", "\n">>

\* a line written at once, or in two pieces: cut after position 2 or 3
PiecesOf(k) ==
    { <<LineOf(k)>>,
      <<SubSeq(LineOf(k), 1, 2), SubSeq(LineOf(k), 3, 4)>>,
      <<SubSeq(LineOf(k), 1, 3), SubSeq(LineOf(k), 4, 4)>> }

RECURSIVE Scripts(_)
Scripts(n) ==
    IF n = 0 THEN { <<>> }
    ELSE { before \o pieces : before \in Scripts(n - 1), pieces \in PiecesOf(n) }

\* json.loads of a stripped line: the record of a line {k}, JSONDecodeError
\* for any other text
IsRecordText(text) ==
    /\ Len(text) = 3
    /\ text[1] = "{"
    /\ text[3] = "}"
    /\ \E k \in 0..9 : Digit(k) = text[2]

RecordOf(text) ==
    << <<k_sequence_num, Iv(CHOOSE k \in 0..9 : Digit(k) = text[2])>> >>

\* line.strip(), the test of the empty line, json.loads
ParsedLine(line) ==
    IF Strip(line) = <<>> THEN BlankLine
    ELSE IF IsRecordText(Strip(line)) THEN EntryLine(RecordOf(Strip(line)))
    ELSE MalformedLine

\* f.readline() at position p: up to the next newline and with it, or up to
\* the end of the file when there is none
readline(file, p) ==
    LET ends == {i \in (p + 1)..Len(file) : file[i] = "\n"}
    IN IF ends = {} THEN SubSeq(file, p + 1, Len(file))
       ELSE SubSeq(file, p + 1, CHOOSE i \in ends : \A j \in ends : i <= j)

InitTail ==
    /\ mode = "tail"
    /\ pc = "wait"
    /\ rules = <<>>
    /\ suspicion_score = 0
    /\ flags = <<>>
    /\ history = <<>>
    /\ cursor = 0
    /\ inp \in [exists : {FALSE}, file : {<<>>}, idle : {FALSE}, yielded : {<<>>},
                todo : UNION {Scripts(n) : n \in 1..MaxLines}]
    /\ out = "none"

\* the writer: open(filepath, 'w')
Create ==
    /\ mode = "tail"
    /\ ~inp.exists
    /\ inp' = [inp EXCEPT !.exists = TRUE]
    /\ UNCHANGED <<mode, pc, rules, suspicion_score, flags, history, cursor, out>>

\* the writer: one write of the next piece reaches the file
Write ==
    /\ mode = "tail"
    /\ inp.exists
    /\ inp.todo # <<>>
    /\ inp' = [inp EXCEPT !.file = @ \o inp.todo[1], !.todo = Tail(@)]
    /\ UNCHANGED <<mode, pc, rules, suspicion_score, flags, history, cursor, out>>

\* follow_file: the file is there, open(filepath, 'r') and f.seek(0, 2)
TailOpen ==
    /\ mode = "tail"
    /\ pc = "wait"
    /\ inp.exists
    /\ cursor' = Len(inp.file)
    /\ pc' = "follow"
    /\ UNCHANGED <<mode, rules, suspicion_score, flags, history, inp, out>>

\* follow_file: readline gives nothing, time.sleep(0.1) and again
TailPoll ==
    /\ mode = "tail"
    /\ pc = "follow"
    /\ readline(inp.file, cursor) = <<>>
    /\ inp' = [inp EXCEPT !.idle = TRUE]
    /\ UNCHANGED <<mode, pc, rules, suspicion_score, flags, history, cursor, out>>

\* follow_file yields what readline gives, and the loop of main takes it
TailRead ==
    /\ mode = "tail"
    /\ pc = "follow"
    /\ readline(inp.file, cursor) # <<>>
    /\ \E line \in {readline(inp.file, cursor)} :
            /\ cursor' = cursor + Len(line)
            /\ inp' = [inp EXCEPT !.yielded = Append(@, line), !.idle = FALSE]
            /\ Consume(ParsedLine(line))
    /\ UNCHANGED <<mode, rules>>

NextTail == Create \/ Write \/ TailOpen \/ TailPoll \/ TailRead

SpecTail ==
    InitTail /\ [][NextTail]_vars
    /\ WF_vars(TailOpen) /\ WF_vars(TailPoll) /\ WF_vars(TailRead)

\* the complete lines of a text, in order, each with its newline
RECURSIVE CompleteLines(_)
CompleteLines(text) ==
    IF \A i \in 1..Len(text) : text[i] # "\n" THEN <<>>
    ELSE <<readline(text, 0)>> \o CompleteLines(Drop(text, Len(readline(text, 0))))

IsPrefix(s, t) == Len(s) <= Len(t) /\ SubSeq(t, 1, Len(s)) = s

YieldedInOrder == mode = "tail" => IsPrefix(inp.yielded, CompleteLines(inp.file))

AllYielded == inp.yielded = CompleteLines(inp.file)

TailRuns == mode = "tail" => pc \in {"wait", "follow"}

\* C25: the lines the generator has yielded are always the first complete
\* lines of the file, in the order of the file and each once (the lines
\* written before the monitor opened the file included); whenever the file
\* holds complete lines, they are all yielded in the end; the generator
\* never ends.
C25_EveryLineYielded ==
    /\ []YieldedInOrder
    /\ []TailRuns
    /\ []<>AllYielded \/ <>[](inp.todo # <<>>)

\* the text the generator has yielded, piece after piece
RECURSIVE Yielded(_)
Yielded(lines) == IF lines = <<>> THEN <<>> ELSE lines[1] \o Yielded(Tail(lines))

\* the records of the lines that parse, in order
RECURSIVE RecordsOf(_)
RecordsOf(lines) ==
    IF lines = <<>> THEN <<>>
    ELSE IF ParsedLine(lines[1]).kind = "entry"
    THEN <<ParsedLine(lines[1]).entry>> \o RecordsOf(Tail(lines))
    ELSE RecordsOf(Tail(lines))

EndsLine(text) == text = <<>> \/ text[Len(text)] = "\n"

NoPartialLine ==
    mode = "tail" => \A i \in 1..Len(inp.yielded) : EndsLine(inp.yielded[i])

RecordsAnalysedOnce ==
    mode = "tail" /\ EndsLine(Yielded(inp.yielded))
        => history = RecordsOf(CompleteLines(Yielded(inp.yielded)))

\* C26: a line that is written in several pieces is yielded only when its
\* newline is in the file: no yielded line is a partial line, and when the
\* reader stands at the end of a line, the records analysed are the records
\* of the complete lines it has read, each once.
C26_PartialLineWaits == []NoPartialLine /\ []RecordsAnalysedOnce

-----------------------------------------------------------------------------
(* Errors raised while a record is evaluated.                               *)

\* a step that takes the next line of the trace
TakesLine == mode \in {"live", "batch"} /\ cursor' = cursor + 1

\* the session goes on after the line: it still takes lines, and the flags
\* and the score it had are kept
GoesOn ==
    /\ pc' = pc
    /\ IsPrefix(flags, flags')
    /\ suspicion_score' >= suspicion_score

\* C27: an error raised while one record is evaluated (a rule whose regular
\* expression does not compile) touches that record only: the step that
\* takes the record keeps the flags and the score of the earlier records
\* and leaves the session taking the records that follow.
C27_ErrorIsolated == [][TakesLine => GoesOn]_vars

-----------------------------------------------------------------------------
(* Replay: the same records are analysed twice against the same rules, each *)
(* time by a session that has just been constructed.  inp.engine tells the  *)
(* engine ("sigma": SigmaDetectionEngine, as the live monitor; "pattern":   *)
(* MaliciousPatternDetector, as analyze_trace), inp.run the run, inp.first  *)
(* what the first run ended with.                                           *)

\* the most records replayed
MaxReplay == 2

ReplayCommands == {c_cat_passwd, c_ls, c_history_c}

ReplayTraces ==
    UNION { [1..n -> {TraceEntry(1, c) : c \in ReplayCommands}] : n \in 1..MaxReplay }

NothingYet == [flags |-> <<>>, score |-> 0, verdict |-> calculate_verdict(0)]

InitReplay ==
    /\ mode = "replay"
    /\ pc = "start"
    /\ NoSession
    /\ inp \in [trace : ReplayTraces, repo : {<<>>, RuleRepo},
                engine : {"sigma", "pattern"}, run : {1}, first : {NothingYet}]
    /\ out = calculate_verdict(0)

\* a session that keeps the score of the session before it
FreshSession_keeps_score ==
    /\ suspicion_score' = suspicion_score
    /\ flags' = <<>>
    /\ history' = <<>>

\* SigmaDetectionEngine(), MaliciousPatternDetector(): score 0, no flags
FreshSession ==
    /\ suspicion_score' = 0
    /\ flags' = <<>>
    /\ history' = <<>>

\* a session is constructed and the rules are loaded
ReplayStart ==
    /\ mode = "replay"
    /\ pc = "start"
    /\ FreshSession
    /\ rules' = LoadedRules(inp.repo)
    /\ cursor' = 0
    /\ out' = calculate_verdict(0)
    /\ pc' = "run"
    /\ UNCHANGED <<mode, inp>>

\* the next record is analysed and its flags are appended
ReplayRecord ==
    /\ mode = "replay"
    /\ pc = "run"
    /\ cursor < Len(inp.trace)
    /\ cursor' = cursor + 1
    /\ IF inp.engine = "sigma"
       THEN Analysed(inp.trace[cursor + 1], analyze_entry(rules, inp.trace[cursor + 1]))
       ELSE \E r \in {analyze_command(inp.trace[cursor + 1])} :
                /\ suspicion_score' = suspicion_score + r.added
                /\ flags' = flags \o r.flags
                /\ history' = Append(history, inp.trace[cursor + 1])
                /\ UNCHANGED <<pc, out>>
    /\ UNCHANGED <<mode, rules, inp>>

\* the records are through: the behavioural checks of analyze_trace, and
\* the verdict
ReplayEnd ==
    /\ mode = "replay"
    /\ pc = "run"
    /\ cursor = Len(inp.trace)
    /\ \E r \in {IF inp.engine = "pattern" THEN detect_behavioral_anomalies(inp.trace)
                 ELSE [flags |-> <<>>, added |-> 0]} :
            /\ flags' = flags \o r.flags
            /\ suspicion_score' = suspicion_score + r.added
            /\ out' = calculate_verdict(suspicion_score + r.added)
    /\ pc' = "ended"
    /\ UNCHANGED <<mode, rules, history, cursor, inp>>

\* the result of the first run is kept aside and the replay begins
ReplayAgain ==
    /\ mode = "replay"
    /\ pc = "ended"
    /\ inp.run = 1
    /\ inp' = [inp EXCEPT !.run = 2,
                          !.first = [flags |-> flags, score |-> suspicion_score,
                                     verdict |-> out]]
    /\ pc' = "start"
    /\ UNCHANGED <<mode, rules, suspicion_score, flags, history, cursor, out>>

NextReplay == ReplayStart \/ ReplayRecord \/ ReplayEnd \/ ReplayAgain

SpecReplay == InitReplay /\ [][NextReplay]_vars

Replayed == mode = "replay" /\ pc = "ended" /\ inp.run = 2

-----------------------------------------------------------------------------
(* The live monitor against analyze_trace over the same lines.              *)

\* the flags and the score of the session of analyze_trace over the records
\* of a trace, before the report is built
BatchSession(trace) ==
    Only({ [flags |-> records.flags \o behavior.flags,
            score |-> records.added + behavior.added] :
           records \in {AnalyzeCommands(ParsedEntries(trace))},
           behavior \in {IF ParsedEntries(trace) = <<>>
                         THEN [flags |-> <<>>, added |-> 0]
                         ELSE detect_behavioral_anomalies(ParsedEntries(trace))} })

LiveConsumedAll == mode = "live" /\ pc = "follow" /\ cursor = Len(inp.trace)

\* C29: when the live monitor has consumed all the lines of a trace, the
\* flags of its session (the flags of the behavioural checks over several
\* records included) and its suspicion score are those of the session of
\* analyze_trace over the same lines.
C29_LiveAsBatch ==
    LiveConsumedAll =>
        \E batch \in {BatchSession(inp.trace)} :
            /\ flags = batch.flags
            /\ suspicion_score = batch.score

-----------------------------------------------------------------------------
(* agent-sandbox, execution_module.py: run_improvement_loop.  cursor is     *)
(* improvement_attempt, inp.max_improvements the argument (a number, not    *)
(* None), history the outcomes of the invocations so far, out.stopped tells *)
(* whether the server was ever found not listening.                         *)

\* the largest max_improvements drawn
MaxImprovements == 3

\* the iterations after which the model stops following a loop
MaxIterations == 5

InitLoop ==
    /\ mode = "run_improvement_loop"
    /\ pc = "start"
    /\ rules = <<>>
    /\ suspicion_score = 0
    /\ flags = <<>>
    /\ history = <<>>
    /\ cursor = 0
    /\ inp \in [max_improvements : 1..MaxImprovements]
    /\ out = [stopped |-> FALSE]

LoopIdle == UNCHANGED <<mode, rules, suspicion_score, flags, inp>>

\* if not is_port_listening(8000): return
NoServer ==
    /\ mode = "run_improvement_loop"
    /\ pc = "start"
    /\ pc' = "returned"
    /\ out' = [stopped |-> TRUE]
    /\ UNCHANGED <<history, cursor>>
    /\ LoopIdle

\* the server is there: improvement_attempt = 0
StartLoop ==
    /\ mode = "run_improvement_loop"
    /\ pc = "start"
    /\ pc' = "loop"
    /\ cursor' = 0
    /\ UNCHANGED <<history, out>>
    /\ LoopIdle

\* the head of an iteration: improvement_attempt += 1, the server listens,
\* the agent is invoked
Iterate ==
    /\ mode = "run_improvement_loop"
    /\ pc = "loop"
    /\ cursor < MaxIterations
    /\ cursor' = cursor + 1
    /\ pc' = "invoke"
    /\ UNCHANGED <<history, out>>
    /\ LoopIdle

\* the head of an iteration: the server has stopped, break
ServerStopped ==
    /\ mode = "run_improvement_loop"
    /\ pc = "loop"
    /\ cursor < MaxIterations
    /\ cursor' = cursor + 1
    /\ pc' = "returned"
    /\ out' = [stopped |-> TRUE]
    /\ UNCHANGED history
    /\ LoopIdle

\* the invocation completes; break when improvement_attempt has reached
\* max_improvements
Completed ==
    /\ mode = "run_improvement_loop"
    /\ pc = "invoke"
    /\ history' = Append(history, "completed")
    /\ pc' = IF cursor >= inp.max_improvements THEN "returned" ELSE "loop"
    /\ UNCHANGED <<cursor, out>>
    /\ LoopIdle

\* except FutureTimeoutError: continue
TimedOut ==
    /\ mode = "run_improvement_loop"
    /\ pc = "invoke"
    /\ history' = Append(history, "timed out")
    /\ pc' = "loop"
    /\ UNCHANGED <<cursor, out>>
    /\ LoopIdle

NextLoop == NoServer \/ StartLoop \/ Iterate \/ ServerStopped \/ Completed \/ TimedOut

SpecLoop == InitLoop /\ [][NextLoop]_vars

AtMostN == mode = "run_improvement_loop" => cursor <= inp.max_improvements

\* the iteration that brings improvement_attempt to max_improvements is
\* the last one
StopsAtN ==
    mode = "run_improvement_loop" /\ pc = "invoke" /\ cursor >= inp.max_improvements
        => pc' = "returned"

\* C30: with max_improvements = n >= 1 the loop makes at most n iterations,
\* and the iteration that reaches n ends the loop, whether its invocation
\* completes or times out.
C30_AtMostNIterations == []AtMostN /\ [][StopsAtN]_vars

====
